---- MODULE Spec2Model ----
(***************************************************************************)
(* A model of starsearch's trust and cache core: the TOFU certificate      *)
(* store (internal/gemini/tofu.go), the Gemini client's Fetch              *)
(* (internal/gemini/client.go) and the page cache (package cache).         *)
(*                                                                         *)
(* Goroutines call the store's methods; every method is cut into the steps *)
(* between which another goroutine can run (lock, body, save, unlock), so  *)
(* that what the mutex guarantees is checked and not assumed.              *)
(***************************************************************************)
EXTENDS Integers, FiniteSets, Sequences, TLC

(***************************************************************************)
(* Bounds of the model.                                                    *)
(***************************************************************************)
\* time.Now() ranges over 0..MaxClock for the store
MaxClock == 1
\* how many times writing the ledger file may fail
MaxWriteFailures == 1

Goroutines == {"g1", "g2"}
Hosts == {"a.example", "b.example"}

\* x509 certificates a server may present: Raw (the DER bytes, here a number)
\* determines the certificate; the validity window is [notBefore, notAfter].
\* Certificate 1 is valid at every time, 2 is not yet valid at time 0,
\* 3 is expired after time 0.
Certificates ==
    { [raw |-> 1, subject |-> "CN=one",   notBefore |-> 0, notAfter |-> 9],
      [raw |-> 2, subject |-> "CN=two",   notBefore |-> 1, notAfter |-> 9],
      [raw |-> 3, subject |-> "CN=three", notBefore |-> 0, notAfter |-> 0] }

NoCertificate == [raw |-> 0, subject |-> "", notBefore |-> 0, notAfter |-> 0]

(***************************************************************************)
(* Values.                                                                 *)
(***************************************************************************)
ErrNil == "nil"
ErrCertificateChanged == "certificate has changed since first use"
ErrCertificateExpired == "certificate has expired"
ErrRejected == "certificate rejected by user"
ErrMkdir == "failed to create directory"
ErrWrite == "failed to write certificates"

\* calculateFingerprint: the hex encoding of the SHA-256 digest of cert.Raw.
\* The digest is modelled as collision free: a tagged copy of its input.
calculateFingerprint(cert) == <<"sha256hex", cert.raw>>

NoFingerprint == <<"sha256hex", 0>>

\* CertificateInfo: what the ledger stores of a certificate.
CertificateInfo(fp, first, last, cert) ==
    [fingerprint |-> fp, firstSeen |-> first, lastSeen |-> last,
     subject |-> cert.subject, notBefore |-> cert.notBefore,
     notAfter |-> cert.notAfter]

NoInfo == CertificateInfo(NoFingerprint, 0, 0, NoCertificate)

\* A Go map is a function whose domain is the set of keys present.
EmptyMap == << >>
MapPut(m, k, v) == [x \in (DOMAIN m) \cup {k} |-> IF x = k THEN v ELSE m[x]]
MapDelete(m, k) == [x \in (DOMAIN m) \ {k} |-> m[x]]

\* json.MarshalIndent of the ledger: the members of a JSON object, one per host.
MarshalIndent(m) == {<<h, m[h]>> : h \in DOMAIN m}
\* json.Unmarshal of such an object into a map.
Unmarshal(d) == [h \in {e[1] : e \in d} |-> (CHOOSE e \in d : e[1] = h)[2]]

\* The ledger file: absent, a JSON document, or the rest of a failed write.
NoFile == [kind |-> "absent", data |-> {}]
JsonFile(d) == [kind |-> "json", data |-> d]
TruncatedFile == [kind |-> "truncated", data |-> {}]


\* What the Gemini client asks for: url.Parse fails on "%zz"; the scheme may
\* be absent, gemini or another one; host is url.URL.Host, the hostname
\* with the port when the URL names one.
URLs ==
    { [parses |-> FALSE, scheme |-> "", host |-> ""] }
    \cup { [parses |-> TRUE, scheme |-> s, host |-> h] :
             s \in {"", "gemini", "https"}, h \in Hosts }
    \cup { [parses |-> TRUE, scheme |-> "gemini", host |-> "a.example:1966"] }

\* (variant: the host is taken with its port)
HostnameWithPort(host) == host
\* url.URL.Hostname: the host without the port
Hostname(host) == IF host = "a.example:1966" THEN "a.example" ELSE host

NoURL == [parses |-> TRUE, scheme |-> "", host |-> ""]

\* What a server answers: status, meta and body.
ServerReplies ==
    { [status |-> 20, meta |-> "text/gemini", body |-> "# hello"] }

NoReply == [status |-> 0, meta |-> "", body |-> ""]
NoResponse == [status |-> 0, meta |-> "", body |-> "", url |-> NoURL]

VARIABLES
    certs,          \* TOFUStore.certs: hostname -> CertificateInfo
    file,           \* the file at TOFUStore.storePath
    mu,             \* TOFUStore.mu: [writer, readers]
    onNewCert,      \* TOFUStore.OnNewCert: "nil" or "func"
    onCertChange,   \* TOFUStore.OnCertChange: "nil" or "func"
    clock,          \* what time.Now() returns
    failures,       \* how many writes of the ledger file have failed
    frame,          \* per goroutine: the running call, its position and locals
    obs,            \* per goroutine: what the running call has done so far
    entries,        \* Cache.entries: key -> CacheEntry
    maxSize,        \* Cache.maxSize, in bytes
    currentSize,    \* Cache.currentSize, in bytes
    defaultTTL,     \* Cache.defaultTTL, in seconds
    last,           \* the last call on the cache and what it returned
    mutex,          \* Cache.mutex: [writer, readers]
    tab,            \* per tab: its running call on the cache, position, locals
    latest,         \* per URL: the response of the last Set that completed
    model,          \* app.Model: currentURL, currentDoc, isNavigating, loading,
                    \* pendingInputURL, showInput
    tabBar,         \* ui.TabBar: tabs and activeIdx
    history,        \* storage.History: entries, currentIndex, maxSize
    inflight,       \* the fetches dispatched by navigate and not yet completed
    started,        \* how many fetches the user's navigations have dispatched
    returned,       \* the last call on the History and the URL it returned
    status,         \* a status code handed to the classifiers
    classes,        \* the classifiers that answered true for it
    input,          \* the response handed to a parser
    doc,            \* the Document the parser returned, and its error
    pageTitle,      \* the title GetTitle returned for the Document
    request         \* what the Gopher client did for a link of the Document

storeVars == <<certs, file, mu, onNewCert, onCertChange, failures, frame, obs>>
tabVars == <<mutex, tab, latest>>
cacheVars == <<entries, maxSize, currentSize, defaultTTL, last, tabVars>>
appVars == <<model, tabBar, history, inflight, started, returned>>
statusVars == <<status, classes>>
parserVars == <<input, doc, pageTitle, request>>
restVars == <<appVars, statusVars, parserVars>>
vars == <<storeVars, cacheVars, clock, restVars>>

NoGoroutine == "none"
Unlocked == [writer |-> NoGoroutine, readers |-> {}]

\* op: the method the goroutine called; host, cert, now, fingerprint, stored,
\* exists, err: Verify's parameters, locals and result (RemoveCert's and Save's
\* too); url, reply, peer, response, ferr: Fetch's.
IdleFrame ==
    [pc |-> "idle", op |-> "none", host |-> "", cert |-> NoCertificate,
     now |-> 0, fingerprint |-> NoFingerprint, stored |-> NoInfo,
     exists |-> FALSE, err |-> ErrNil,
     url |-> NoURL, reply |-> NoReply, peer |-> NoCertificate,
     response |-> NoResponse, ferr |-> ErrNil]

\* asked: the trust-decision callbacks invoked, with their answers; atLock: the ledger when the
\* lock was taken; saved: whether save() ran, and saveErr what it returned;
\* verified: how the Verify call inside a Fetch ended; bodyRead: whether Fetch
\* has read the response body.
\* given: the arguments the accept-changed callback was called with
NoArguments == [called |-> FALSE]
NoObs ==
    [asked |-> {}, atLock |-> EmptyMap, saved |-> FALSE, saveErr |-> ErrNil,
     verified |-> "not called", bodyRead |-> FALSE, given |-> NoArguments]

(***************************************************************************)
(* NewTOFUStore: an empty map, then Load().  A missing file is no error;   *)
(* a file of an earlier session is read into the map.                      *)
(***************************************************************************)
Load(f) == IF f.kind = "json" THEN Unmarshal(f.data) ELSE EmptyMap

\* the store file at startup: none, or one written by an earlier session
\* that trusted certificate 1 for a.example at time 0
InitialFiles ==
    LET one == [raw |-> 1, subject |-> "CN=one", notBefore |-> 0, notAfter |-> 9]
    IN  { NoFile,
          JsonFile(MarshalIndent(MapPut(EmptyMap, "a.example",
              CertificateInfo(calculateFingerprint(one), 0, 0, one)))) }

\* The callbacks installed after construction (the fields are exported):
\* both (NewModel does), one of them, or none.
CallbackSettings == {"nil", "func"} \X {"nil", "func"}

NewTOFUStore ==
    /\ file \in InitialFiles
    /\ certs = Load(file)
    /\ mu = Unlocked
    /\ \E cb \in CallbackSettings : onNewCert = cb[1] /\ onCertChange = cb[2]

InitStore ==
    /\ NewTOFUStore
    /\ clock = 0
    /\ failures = 0
    /\ frame = [p \in Goroutines |-> IdleFrame]
    /\ obs = [p \in Goroutines |-> NoObs]

\* TOFUStore.GetCertInfo and TOFUStore.ListHosts
GetCertInfo(host) ==
    IF host \in DOMAIN certs THEN <<certs[host], TRUE>> ELSE <<NoInfo, FALSE>>
ListHosts == DOMAIN certs

\* time passes
Tick ==
    /\ clock < MaxClock
    /\ clock' = clock + 1
    /\ UNCHANGED <<certs, file, mu, onNewCert, onCertChange, failures, frame, obs>>

(***************************************************************************)
(* sync.RWMutex: Lock waits until no goroutine holds the mutex, RLock      *)
(* until no writer holds it.                                               *)
(***************************************************************************)
\* (variant: a lock that excludes nobody)
CanLockNoExclusion == TRUE
CanLock == mu.writer = NoGoroutine /\ mu.readers = {}
CanRLock == mu.writer = NoGoroutine

(***************************************************************************)
(* TOFUStore.save: MkdirAll, MarshalIndent, WriteFile.  WriteFile can fail *)
(* before it truncates the file or after.                                  *)
(***************************************************************************)
SaveOutcomes == {"ok", "mkdir failed", "open failed", "write failed"}

saveErr(o) ==
    CASE o = "ok" -> ErrNil
      [] o = "mkdir failed" -> ErrMkdir
      [] OTHER -> ErrWrite

saveFile(o) ==
    CASE o = "ok" -> JsonFile(MarshalIndent(certs))
      [] o = "write failed" -> TruncatedFile
      [] OTHER -> file

save(p, o) ==
    /\ o # "ok" => failures < MaxWriteFailures
    /\ failures' = IF o = "ok" THEN failures ELSE failures + 1
    /\ file' = saveFile(o)
    /\ obs' = [obs EXCEPT ![p].saved = TRUE, ![p].saveErr = saveErr(o)]

(***************************************************************************)
(* TOFUStore.Verify                                                        *)
(***************************************************************************)
\* t.mu.Lock(), taken once the lock is free (caller: the calling goroutine's
\* frame)
VerifyLock(p, caller, host, cert) ==
    /\ CanLock
    /\ mu' = [mu EXCEPT !.writer = p]
    /\ frame' = [frame EXCEPT ![p] =
         [caller EXCEPT !.pc = "v_check", !.host = host, !.cert = cert]]
    /\ obs' = [obs EXCEPT ![p].atLock = certs]
    /\ UNCHANGED <<certs, file, onNewCert, onCertChange, clock, failures>>

\* a goroutine calls Verify and waits for the lock
VerifyCall(p) ==
    /\ frame[p].pc = "idle"
    /\ frame' = [frame EXCEPT ![p] = [IdleFrame EXCEPT !.pc = "v_lock", !.op = "Verify"]]
    /\ UNCHANGED <<certs, file, mu, onNewCert, onCertChange, clock, failures, obs>>

\* the waiting call gets the lock; its arguments do not depend on the store
\* and are drawn here
VerifyBegin(p, host, cert) ==
    /\ frame[p].pc = "v_lock"
    /\ VerifyLock(p, frame[p], host, cert)

\* (variant: NotBefore is not looked at)
ExpiredNotAfterOnly(now, cert) == now > cert.notAfter
\* now.Before(cert.NotBefore) || now.After(cert.NotAfter)
Expired(now, cert) == now < cert.notBefore \/ now > cert.notAfter

\* the expiry check, the fingerprint and the lookup of the host
VerifyCheck(p) ==
    LET f == frame[p]
        host == f.host
    IN
    /\ f.pc = "v_check"
    /\ IF Expired(clock, f.cert)
       THEN frame' = [frame EXCEPT ![p].now = clock,
                                   ![p].err = ErrCertificateExpired,
                                   ![p].pc = "v_unlock"]
       ELSE frame' = [frame EXCEPT
                ![p].now = clock,
                ![p].fingerprint = calculateFingerprint(f.cert),
                ![p].exists = (host \in DOMAIN certs),
                ![p].stored = IF host \in DOMAIN certs THEN certs[host] ELSE NoInfo,
                ![p].pc = "v_decide"]
    /\ UNCHANGED <<certs, file, mu, onNewCert, onCertChange, clock, failures, obs>>

\* What a trust-decision callback can answer; a nil callback is not called
\* and the certificate is accepted.
\* A callback is nil, a function of its arguments alone ("func"), or a
\* function that first looks the host up in the store ("reads": the stored
\* record is the only source of the old certificate's metadata).
\* Where Verify stands when the callback's answer is in
Consulted(callback) == IF callback = "reads" THEN "v_called" ELSE "v_decide"

\* (variant: a missing callback can refuse)
AnswersNilRefuses(callback) == BOOLEAN
Answers(callback) == IF callback = "nil" THEN {TRUE} ELSE BOOLEAN
Asked(callback, name, answer) == IF callback = "nil" THEN {} ELSE {<<name, answer>>}

\* (variant: the record is stored before the answer is looked at)
DecidedAlwaysStored(accept, m, host, info) == MapPut(m, host, info)
\* the decision's effect on the map: the record is stored only when accepted
Decided(accept, m, host, info) == IF accept THEN MapPut(m, host, info) ELSE m

\* (variant: firstSeen left at the zero time)
NewInfoZeroFirstSeen(f) == CertificateInfo(f.fingerprint, 0, f.now, f.cert)
\* the record of a host trusted on first use
NewInfo(f) == CertificateInfo(f.fingerprint, f.now, f.now, f.cert)

\* (variant: firstSeen restarts)
ChangedInfoFirstSeenNow(f) == CertificateInfo(f.fingerprint, f.now, f.now, f.cert)
\* the record of a host whose changed certificate was accepted
ChangedInfo(f) == CertificateInfo(f.fingerprint, f.stored.firstSeen, f.now, f.cert)

\* first use of the host
VerifyNewHost(p) ==
    LET f == frame[p] IN
    /\ f.pc = Consulted(onNewCert)
    /\ ~f.exists
    /\ \E accept \in Answers(onNewCert) :
         /\ obs' = [obs EXCEPT ![p].asked = @ \cup Asked(onNewCert, "OnNewCert", accept)]
         /\ certs' = Decided(accept, certs, f.host, NewInfo(f))
         /\ frame' = IF accept
                     THEN [frame EXCEPT ![p].pc = "v_save"]
                     ELSE [frame EXCEPT ![p].err = ErrRejected, ![p].pc = "v_unlock"]
    /\ UNCHANGED <<file, mu, onNewCert, onCertChange, clock, failures>>

\* t.OnCertChange(host, nil, cert): the host, a nil pointer for the old
\* certificate, and the presented certificate
NilCertificate == [kind |-> "nil"]
CertChangeArguments(f) ==
    [called |-> TRUE, host |-> f.host, old |-> NilCertificate, new |-> f.cert]

\* the host is known and presents another certificate
VerifyChanged(p) ==
    LET f == frame[p] IN
    /\ f.pc = Consulted(onCertChange)
    /\ f.exists
    /\ f.stored.fingerprint # f.fingerprint
    /\ \E accept \in Answers(onCertChange) :
         /\ obs' = [obs EXCEPT
                      ![p].asked = @ \cup Asked(onCertChange, "OnCertChange", accept),
                      ![p].given = IF onCertChange = "nil" THEN @
                                   ELSE CertChangeArguments(f)]
         /\ certs' = Decided(accept, certs, f.host, ChangedInfo(f))
         /\ frame' = IF accept
                     THEN [frame EXCEPT ![p].pc = "v_save"]
                     ELSE [frame EXCEPT ![p].err = ErrCertificateChanged,
                                        ![p].pc = "v_unlock"]
    /\ UNCHANGED <<file, mu, onNewCert, onCertChange, clock, failures>>

\* (variant: firstSeen is touched too)
SameInfoFirstSeenNow(f) == [f.stored EXCEPT !.firstSeen = f.now, !.lastSeen = f.now]
\* stored.LastSeen = now; stored points at the record the map holds
SameInfo(f) == [f.stored EXCEPT !.lastSeen = f.now]

\* the host is known and presents the stored certificate
VerifySame(p) ==
    LET f == frame[p] IN
    /\ f.pc = "v_decide"
    /\ f.exists
    /\ f.stored.fingerprint = f.fingerprint
    /\ certs' = IF f.host \in DOMAIN certs
                THEN [certs EXCEPT ![f.host] = SameInfo(f)]
                ELSE certs
    /\ frame' = [frame EXCEPT ![p].pc = "v_save"]
    /\ UNCHANGED <<file, mu, onNewCert, onCertChange, clock, failures, obs>>

\* (variant: save's error is returned)
VerifySaveResultPropagated(e) == e
\* _ = t.save(): what Verify returns after save returned e
VerifySaveResult(e) == ErrNil

VerifySave(p) ==
    /\ frame[p].pc = "v_save"
    /\ \E o \in SaveOutcomes :
         /\ save(p, o)
         /\ frame' = [frame EXCEPT ![p].err = VerifySaveResult(saveErr(o)),
                                   ![p].pc = "v_unlock"]
    /\ UNCHANGED <<certs, mu, onNewCert, onCertChange, clock>>

\* defer t.mu.Unlock() and the return: to the caller of Verify, or into Fetch
VerifyUnlock(p) ==
    /\ frame[p].pc = "v_unlock"
    /\ mu' = [mu EXCEPT !.writer = NoGoroutine]
    /\ IF frame[p].op = "Fetch"
       THEN /\ frame' = [frame EXCEPT ![p] =
                    [IdleFrame EXCEPT !.pc = "f_verified", !.op = "Fetch",
                                      !.url = frame[p].url, !.reply = frame[p].reply,
                                      !.err = frame[p].err]]
            /\ obs' = [obs EXCEPT ![p] = [NoObs EXCEPT !.verified =
                          IF frame[p].err = ErrNil THEN "succeeded" ELSE "failed"]]
       ELSE /\ frame' = [frame EXCEPT ![p] = IdleFrame]
            /\ obs' = [obs EXCEPT ![p] = NoObs]
    /\ UNCHANGED <<certs, file, onNewCert, onCertChange, clock, failures>>

(***************************************************************************)
(* TOFUStore.RemoveCert                                                    *)
(***************************************************************************)
\* the call and t.mu.Lock()
RemoveCertLock(p, host) ==
    /\ frame[p].pc = "idle"
    /\ CanLock
    /\ mu' = [mu EXCEPT !.writer = p]
    /\ frame' = [frame EXCEPT ![p] =
         [IdleFrame EXCEPT !.pc = "r_delete", !.op = "RemoveCert", !.host = host]]
    /\ obs' = [obs EXCEPT ![p].atLock = certs]
    /\ UNCHANGED <<certs, file, onNewCert, onCertChange, clock, failures>>

\* (variant: the record is deleted and the ledger is not saved)
RemoveCertDeleteNoSave(p) ==
    /\ frame[p].pc = "r_delete"
    /\ certs' = MapDelete(certs, frame[p].host)
    /\ frame' = [frame EXCEPT ![p].pc = "r_unlock"]
    /\ UNCHANGED <<file, mu, onNewCert, onCertChange, clock, failures, obs>>

\* delete(t.certs, host)
RemoveCertDelete(p) ==
    /\ frame[p].pc = "r_delete"
    /\ certs' = MapDelete(certs, frame[p].host)
    /\ frame' = [frame EXCEPT ![p].pc = "r_save"]
    /\ UNCHANGED <<file, mu, onNewCert, onCertChange, clock, failures, obs>>

\* (variant: a failed write puts the record back)
RemoveCertSaveRestoring(p) ==
    /\ frame[p].pc = "r_save"
    /\ \E o \in SaveOutcomes :
         /\ save(p, o)
         /\ frame' = [frame EXCEPT ![p].err = saveErr(o), ![p].pc = "r_unlock"]
         /\ certs' = IF o = "ok" THEN certs ELSE obs[p].atLock
    /\ UNCHANGED <<mu, onNewCert, onCertChange, clock>>

\* return t.save()
RemoveCertSave(p) ==
    /\ frame[p].pc = "r_save"
    /\ \E o \in SaveOutcomes :
         /\ save(p, o)
         /\ frame' = [frame EXCEPT ![p].err = saveErr(o), ![p].pc = "r_unlock"]
    /\ UNCHANGED <<certs, mu, onNewCert, onCertChange, clock>>

\* defer t.mu.Unlock() and the return
RemoveCertUnlock(p) ==
    /\ frame[p].pc = "r_unlock"
    /\ mu' = [mu EXCEPT !.writer = NoGoroutine]
    /\ frame' = [frame EXCEPT ![p] = IdleFrame]
    /\ obs' = [obs EXCEPT ![p] = NoObs]
    /\ UNCHANGED <<certs, file, onNewCert, onCertChange, clock, failures>>

(***************************************************************************)
(* TOFUStore.Save                                                          *)
(***************************************************************************)
\* the call and t.mu.RLock()
SaveRLock(p) ==
    /\ frame[p].pc = "idle"
    /\ CanRLock
    /\ mu' = [mu EXCEPT !.readers = @ \cup {p}]
    /\ frame' = [frame EXCEPT ![p] = [IdleFrame EXCEPT !.pc = "s_save", !.op = "Save"]]
    /\ obs' = [obs EXCEPT ![p].atLock = certs]
    /\ UNCHANGED <<certs, file, onNewCert, onCertChange, clock, failures>>

\* return t.save()
SaveSave(p) ==
    /\ frame[p].pc = "s_save"
    /\ \E o \in SaveOutcomes :
         /\ save(p, o)
         /\ frame' = [frame EXCEPT ![p].err = saveErr(o), ![p].pc = "s_unlock"]
    /\ UNCHANGED <<certs, mu, onNewCert, onCertChange, clock>>

\* defer t.mu.RUnlock() and the return
SaveRUnlock(p) ==
    /\ frame[p].pc = "s_unlock"
    /\ mu' = [mu EXCEPT !.readers = @ \ {p}]
    /\ frame' = [frame EXCEPT ![p] = IdleFrame]
    /\ obs' = [obs EXCEPT ![p] = NoObs]
    /\ UNCHANGED <<certs, file, onNewCert, onCertChange, clock, failures>>

(***************************************************************************)
(* TOFUStore.GetCertInfo, called by a goroutine or, from inside Verify, by *)
(* a trust-decision callback that reads the store.                         *)
(***************************************************************************)
\* a goroutine calls GetCertInfo
GetCertInfoCall(p, host) ==
    /\ frame[p].pc = "idle"
    /\ frame' = [frame EXCEPT ![p] =
         [IdleFrame EXCEPT !.pc = "g_rlock", !.op = "GetCertInfo", !.host = host]]
    /\ UNCHANGED <<certs, file, mu, onNewCert, onCertChange, clock, failures, obs>>

\* the callback Verify invokes calls GetCertInfo
CallbackGetCertInfo(p) ==
    LET f == frame[p] IN
    /\ f.pc = "v_decide"
    /\ \/ ~f.exists /\ onNewCert = "reads"
       \/ /\ f.exists
          /\ f.stored.fingerprint # f.fingerprint
          /\ onCertChange = "reads"
    /\ frame' = [frame EXCEPT ![p].pc = "g_rlock"]
    /\ UNCHANGED <<certs, file, mu, onNewCert, onCertChange, clock, failures, obs>>

\* t.mu.RLock() and the lookup
GetCertInfoRLock(p) ==
    /\ frame[p].pc = "g_rlock"
    /\ CanRLock
    /\ mu' = [mu EXCEPT !.readers = @ \cup {p}]
    /\ frame' = IF frame[p].op = "GetCertInfo"
                THEN [frame EXCEPT ![p].stored = GetCertInfo(frame[p].host)[1],
                                   ![p].exists = GetCertInfo(frame[p].host)[2],
                                   ![p].pc = "g_runlock"]
                ELSE [frame EXCEPT ![p].pc = "g_runlock"]
    /\ UNCHANGED <<certs, file, onNewCert, onCertChange, clock, failures, obs>>

\* defer t.mu.RUnlock() and the return: to the caller, or into the callback
GetCertInfoRUnlock(p) ==
    /\ frame[p].pc = "g_runlock"
    /\ mu' = [mu EXCEPT !.readers = @ \ {p}]
    /\ frame' = IF frame[p].op = "GetCertInfo"
                THEN [frame EXCEPT ![p] = IdleFrame]
                ELSE [frame EXCEPT ![p].pc = "v_called"]
    /\ UNCHANGED <<certs, file, onNewCert, onCertChange, clock, failures, obs>>

(***************************************************************************)
(* gemini.Client.Fetch.  c.client.Do (go-gemini) connects over TLS, sends  *)
(* the request and reads the response header; it always speaks TLS, and a  *)
(* completed handshake carries the server's leaf certificate, so the       *)
(* connection state Fetch gets from resp.TLS() holds one.                  *)
(***************************************************************************)
ErrInvalidURL == "invalid URL"
ErrUnsupportedScheme == "unsupported scheme"
ErrFetch == "failed to fetch"
ErrVerification == "certificate verification failed"
ErrReadBody == "failed to read response body"

\* the URL does not parse, the scheme is refused, or c.client.Do fails
FetchFails(p, url) ==
    /\ frame[p].pc = "idle"
    /\ \/ /\ ~url.parses
          /\ frame' = [frame EXCEPT ![p] = [IdleFrame EXCEPT
                !.op = "Fetch", !.ferr = ErrInvalidURL, !.pc = "f_ret"]]
       \/ /\ url.parses
          /\ url.scheme \notin {"", "gemini"}
          /\ frame' = [frame EXCEPT ![p] = [IdleFrame EXCEPT
                !.op = "Fetch", !.ferr = ErrUnsupportedScheme, !.pc = "f_ret"]]
       \/ /\ url.parses
          /\ url.scheme \in {"", "gemini"}
          /\ frame' = [frame EXCEPT ![p] = [IdleFrame EXCEPT
                !.op = "Fetch", !.ferr = ErrFetch, !.pc = "f_ret"]]
    /\ UNCHANGED <<certs, file, mu, onNewCert, onCertChange, clock, failures, obs>>

\* (variant: Verify's error is not looked at)
FetchVerifyFailedIgnored(err) == FALSE
\* err := c.tofuStore.Verify(host, cert); err != nil
FetchVerifyFailed(err) == err # ErrNil

\* c.client.Do succeeds: the header is read and the handshake's leaf
\* certificate, tlsState.PeerCertificates[0], is verified for
\* parsedURL.Hostname()
FetchVerify(p, url, reply, peer) ==
    /\ frame[p].pc = "idle"
    /\ url.parses
    /\ url.scheme \in {"", "gemini"}
    /\ IF peer # NoCertificate
       THEN VerifyLock(p, [IdleFrame EXCEPT !.op = "Fetch",
                                            !.url = [url EXCEPT !.scheme = "gemini"],
                                            !.reply = reply, !.peer = peer],
                       Hostname(url.host), peer)
       ELSE /\ frame' = [frame EXCEPT ![p].op = "Fetch",
                                      ![p].url = [url EXCEPT !.scheme = "gemini"],
                                      ![p].reply = reply, ![p].pc = "f_verified"]
            /\ UNCHANGED <<certs, file, mu, onNewCert, onCertChange, clock,
                           failures, obs>>

\* after Verify: the error return, or io.ReadAll(resp.Body) and the Response
FetchVerified(p) ==
    LET f == frame[p] IN
    /\ f.pc = "f_verified"
    /\ IF FetchVerifyFailed(f.err)
       THEN /\ frame' = [frame EXCEPT ![p] = [IdleFrame EXCEPT
                  !.op = "Fetch", !.ferr = ErrVerification, !.pc = "f_ret"]]
            /\ UNCHANGED obs
       ELSE /\ obs' = [obs EXCEPT ![p].bodyRead = TRUE]
            /\ \/ frame' = [frame EXCEPT ![p] = [IdleFrame EXCEPT
                     !.op = "Fetch", !.ferr = ErrReadBody, !.pc = "f_ret"]]
               \/ frame' = [frame EXCEPT ![p] = [IdleFrame EXCEPT
                     !.op = "Fetch", !.pc = "f_ret", !.response =
                        [status |-> f.reply.status, meta |-> f.reply.meta,
                         body |-> f.reply.body, url |-> f.url]]]
    /\ UNCHANGED <<certs, file, mu, onNewCert, onCertChange, clock, failures>>

\* Fetch returns (response, nil) or (nil, ferr)
FetchReturn(p) ==
    /\ frame[p].pc = "f_ret"
    /\ frame' = [frame EXCEPT ![p] = IdleFrame]
    /\ obs' = [obs EXCEPT ![p] = NoObs]
    /\ UNCHANGED <<certs, file, mu, onNewCert, onCertChange, clock, failures>>

(***************************************************************************)
(* The page cache (package cache).  Every method runs under Cache.mutex    *)
(* from its first access of the cache to its return.  A body is its text   *)
(* and its length in bytes; the cache reads only the length.               *)
(***************************************************************************)
MaxCacheClock == 3

CacheURLs == {"gemini://a.example/", "gemini://b.example/"}

Half == [text |-> "half", len |-> 524288]
Full == [text |-> "full", len |-> 1048576]
Over == [text |-> "over", len |-> 1048577]

\* the responses handed to Set; NilResponse is the nil pointer
NilResponse == [status |-> 0, meta |-> "", body |-> [text |-> "", len |-> 0], url |-> ""]
CacheResponses(url) ==
    { [status |-> 20, meta |-> "text/gemini", body |-> Half, url |-> url],
      [status |-> 20, meta |-> "text/plain",  body |-> Half, url |-> url],
      [status |-> 20, meta |-> "text/gemini", body |-> Full, url |-> url],
      [status |-> 20, meta |-> "text/gemini", body |-> Over, url |-> url],
      [status |-> 20, meta |-> "image/png",   body |-> Half, url |-> url],
      NilResponse }
TTLs == {0, 1, 4}
CacheSizesMB == {0, 1}
DefaultTTLs == {2}

\* Cache.key: the hex SHA-256 digest of the URL, modelled as collision free
key(url) == <<"sha256hex", url>>

\* Go's integer division truncates toward zero
Quot(a, b) == IF a >= 0 THEN a \div b ELSE -((-a) \div b)

\* had: a dropped Set was called while Get still found an entry for its URL
NoLast ==
    [op |-> "none", url |-> "", found |-> FALSE, response |-> NilResponse,
     had |-> FALSE]

NewCache(maxSizeMB, defaultTTLSeconds) ==
    /\ entries = EmptyMap
    /\ maxSize = maxSizeMB * 1024 * 1024
    /\ currentSize = 0
    /\ defaultTTL = defaultTTLSeconds

\* Cache.GetSize and Cache.GetEntryCount
GetSize == currentSize
GetEntryCount == Cardinality(DOMAIN entries)

\* (variant: an entry already counts as expired at its deadline)
EntryExpiredAtDeadline(entry, now) == entry.timestamp + entry.ttl <= now
\* Cache.Get's expiry test
EntryExpired(entry, now) == entry.timestamp + entry.ttl < now

\* what Cache.Get returns for url in the current state
Lookup(url) ==
    IF key(url) \notin DOMAIN entries
       \/ EntryExpired(entries[key(url)], clock)
    THEN [found |-> FALSE, response |-> NilResponse]
    ELSE [found |-> TRUE, response |-> entries[key(url)].response]

\* (variant: a Get that finds an expired entry deletes it)
GetDeletingExpired(url) ==
    /\ last' = [op |-> "Get", url |-> url, found |-> Lookup(url).found,
                response |-> Lookup(url).response, had |-> FALSE]
    /\ entries' = IF Lookup(url).found THEN entries
                  ELSE MapDelete(entries, key(url))
    /\ currentSize' = IF key(url) \in DOMAIN entries /\ ~Lookup(url).found
                      THEN currentSize - entries[key(url)].response.body.len
                      ELSE currentSize
    /\ UNCHANGED <<maxSize, defaultTTL>>
\* Cache.Get: the entry, unless absent or past its time to live
Get(url) ==
    /\ last' = [op |-> "Get", url |-> url, found |-> Lookup(url).found,
                response |-> Lookup(url).response, had |-> FALSE]
    /\ UNCHANGED <<entries, maxSize, currentSize, defaultTTL>>

\* the sum of the body lengths of the entries under the keys ks
RECURSIVE BodyBytes(_, _)
BodyBytes(m, ks) ==
    IF ks = {} THEN 0
    ELSE LET k == CHOOSE x \in ks : TRUE
         IN  m[k].response.body.len + BodyBytes(m, ks \ {k})

\* evictOldest: every entry older than half its time to live goes
Evicted(m, now) ==
    {k \in DOMAIN m : m[k].timestamp + Quot(m[k].ttl, 2) < now}
\* (variant: the eviction pass removes nothing)
evictNothing(m, now) == m
evictOldest(m, now) == [k \in (DOMAIN m) \ Evicted(m, now) |-> m[k]]

\* (variant: no second check)
StillTooLargeUnchecked(size, entrySize) == FALSE
\* the second check of Set: the entry still does not fit
StillTooLarge(size, entrySize) == size + entrySize > maxSize

\* (variant: any response that is not nil is cached)
CacheableAnyMeta(resp) == resp # NilResponse
\* the first two checks of Set: a response, of one of the two text types
Cacheable(resp) ==
    resp # NilResponse /\ resp.meta \in {"text/gemini", "text/plain"}

\* (variant: the eviction pass runs in every Set)
NeedsRoomAlways(size, entrySize) == TRUE
\* the first check of Set: the entry does not fit beside what is stored
NeedsRoom(size, entrySize) == size + entrySize > maxSize

\* (variant: the size is left as it was)
SizeWithoutUnchanged(m, size, k) == size
\* the size once the entry under k, if there is one, has been removed
SizeWithout(m, size, k) ==
    IF k \in DOMAIN m THEN size - m[k].response.body.len ELSE size

\* Cache.Set
Set(url, resp, ttl) ==
    IF ~Cacheable(resp)
    THEN /\ last' = [op |-> "Set refused", url |-> url, found |-> FALSE,
                     response |-> NilResponse, had |-> FALSE]
         /\ UNCHANGED <<entries, maxSize, currentSize, defaultTTL>>
    ELSE
    LET k == key(url)
        entrySize == resp.body.len
        \* the old entry is removed
        m1 == MapDelete(entries, k)
        s1 == SizeWithout(entries, currentSize, k)
        \* room is made when the new entry does not fit
        m2 == IF NeedsRoom(s1, entrySize) THEN evictOldest(m1, clock) ELSE m1
        s2 == IF NeedsRoom(s1, entrySize)
              THEN s1 - BodyBytes(m1, Evicted(m1, clock))
              ELSE s1
        entry == [url |-> url, response |-> resp, timestamp |-> clock,
                  ttl |-> IF ttl <= 0 THEN defaultTTL ELSE ttl]
    IN
    IF StillTooLarge(s2, entrySize)
    THEN /\ entries' = m2
         /\ currentSize' = s2
         /\ last' = [op |-> "Set dropped", url |-> url, found |-> FALSE,
                     response |-> NilResponse, had |-> Lookup(url).found]
         /\ UNCHANGED <<maxSize, defaultTTL>>
    ELSE /\ entries' = MapPut(m2, k, entry)
         /\ currentSize' = s2 + entrySize
         /\ last' = [op |-> "Set stored", url |-> url, found |-> FALSE,
                     response |-> NilResponse, had |-> FALSE]
         /\ UNCHANGED <<maxSize, defaultTTL>>

\* Cache.Clear
Clear ==
    /\ entries' = EmptyMap
    /\ currentSize' = 0
    /\ last' = [NoLast EXCEPT !.op = "Clear"]
    /\ UNCHANGED <<maxSize, defaultTTL>>

\* Cache.Invalidate
Invalidate(url) ==
    /\ entries' = MapDelete(entries, key(url))
    /\ currentSize' = SizeWithout(entries, currentSize, key(url))
    /\ last' = [NoLast EXCEPT !.op = "Invalidate", !.url = url]
    /\ UNCHANGED <<maxSize, defaultTTL>>

\* time passes for the cache
CacheTick ==
    /\ clock < MaxCacheClock
    /\ clock' = clock + 1
    /\ UNCHANGED <<cacheVars, restVars>>

\* ---- the cache shared by several tabs ----

MaxTabClock == 1

Tabs == {"t1", "t2"}
TabResponses(url) ==
    { [status |-> 20, meta |-> "text/gemini", body |-> Half, url |-> url],
      [status |-> 20, meta |-> "text/gemini", body |-> Full, url |-> url],
      [status |-> 20, meta |-> "image/png",   body |-> Half, url |-> url] }
TabTTLs == {0, 1}

IdleTab == [pc |-> "idle", url |-> "", resp |-> NilResponse, ttl |-> 0,
            found |-> FALSE, response |-> NilResponse]
IdleTabs ==
    /\ mutex = Unlocked
    /\ tab = [p \in Tabs |-> IdleTab]
    /\ latest = [url \in CacheURLs |-> NilResponse]

\* (variant: a lock that excludes nobody)
MutexNoExclusion == TRUE
\* c.mutex.Lock() and c.mutex.RLock()
MutexCanLock == mutex.writer = NoGoroutine /\ mutex.readers = {}
MutexCanRLock == mutex.writer = NoGoroutine

\* Set: the two checks before the lock
SetCall(p, url, resp, ttl) ==
    /\ tab[p].pc = "idle"
    /\ tab' = [tab EXCEPT ![p] =
                 [IdleTab EXCEPT !.pc = IF Cacheable(resp) THEN "cs_lock"
                                        ELSE "cs_refused",
                                 !.url = url, !.resp = resp, !.ttl = ttl]]
    /\ UNCHANGED <<entries, maxSize, currentSize, defaultTTL, last, mutex,
                   latest>>
SetRefused(p) ==
    /\ tab[p].pc = "cs_refused"
    /\ tab' = [tab EXCEPT ![p] = IdleTab]
    /\ UNCHANGED <<entries, maxSize, currentSize, defaultTTL, last, mutex,
                   latest>>
SetLock(p) ==
    /\ tab[p].pc = "cs_lock"
    /\ MutexCanLock
    /\ mutex' = [mutex EXCEPT !.writer = p]
    /\ tab' = [tab EXCEPT ![p].pc = "cs_remove"]
    /\ UNCHANGED <<entries, maxSize, currentSize, defaultTTL, last, latest>>
\* Set: the old entry of the key is removed
SetRemoveOld(p) ==
    /\ tab[p].pc = "cs_remove"
    /\ entries' = MapDelete(entries, key(tab[p].url))
    /\ currentSize' = IF key(tab[p].url) \in DOMAIN entries
                      THEN currentSize
                           - entries[key(tab[p].url)].response.body.len
                      ELSE currentSize
    /\ tab' = [tab EXCEPT ![p].pc = "cs_evict"]
    /\ UNCHANGED <<maxSize, defaultTTL, last, mutex, latest>>
\* Set: the eviction pass and the second size check
SetEvict(p) ==
    /\ tab[p].pc = "cs_evict"
    /\ LET entrySize == tab[p].resp.body.len
           need == currentSize + entrySize > maxSize
           s2 == IF need
                 THEN currentSize - BodyBytes(entries, Evicted(entries, clock))
                 ELSE currentSize
       IN  /\ entries' = IF need THEN evictOldest(entries, clock) ELSE entries
           /\ currentSize' = s2
           /\ tab' = [tab EXCEPT ![p].pc = IF StillTooLarge(s2, entrySize)
                                           THEN "cs_unlock" ELSE "cs_insert"]
    /\ UNCHANGED <<maxSize, defaultTTL, last, mutex, latest>>
\* Set: c.entries[key] = entry
SetInsert(p) ==
    /\ tab[p].pc = "cs_insert"
    /\ entries' = MapPut(entries, key(tab[p].url),
                         [url |-> tab[p].url, response |-> tab[p].resp,
                          timestamp |-> clock,
                          ttl |-> IF tab[p].ttl <= 0 THEN defaultTTL
                                  ELSE tab[p].ttl])
    /\ tab' = [tab EXCEPT ![p].pc = "cs_size"]
    /\ UNCHANGED <<maxSize, currentSize, defaultTTL, last, mutex, latest>>
\* Set: c.currentSize += entrySize
SetAddSize(p) ==
    /\ tab[p].pc = "cs_size"
    /\ currentSize' = currentSize + tab[p].resp.body.len
    /\ tab' = [tab EXCEPT ![p].pc = "cs_unlock"]
    /\ UNCHANGED <<entries, maxSize, defaultTTL, last, mutex, latest>>
SetUnlock(p) ==
    /\ tab[p].pc = "cs_unlock"
    /\ mutex' = [mutex EXCEPT !.writer = NoGoroutine]
    /\ latest' = [latest EXCEPT ![tab[p].url] = tab[p].resp]
    /\ tab' = [tab EXCEPT ![p] = IdleTab]
    /\ UNCHANGED <<entries, maxSize, currentSize, defaultTTL, last>>

\* Get under the read lock
GetRLock(p, url) ==
    /\ tab[p].pc = "idle"
    /\ MutexCanRLock
    /\ mutex' = [mutex EXCEPT !.readers = @ \cup {p}]
    /\ tab' = [tab EXCEPT ![p] = [IdleTab EXCEPT !.pc = "cg_read", !.url = url]]
    /\ UNCHANGED <<entries, maxSize, currentSize, defaultTTL, last, latest>>
GetRead(p) ==
    /\ tab[p].pc = "cg_read"
    /\ tab' = [tab EXCEPT ![p].pc = "cg_ret",
                          ![p].found = Lookup(tab[p].url).found,
                          ![p].response = Lookup(tab[p].url).response]
    /\ UNCHANGED <<entries, maxSize, currentSize, defaultTTL, last, mutex,
                   latest>>
GetRUnlock(p) ==
    /\ tab[p].pc = "cg_ret"
    /\ mutex' = [mutex EXCEPT !.readers = @ \ {p}]
    /\ tab' = [tab EXCEPT ![p] = IdleTab]
    /\ UNCHANGED <<entries, maxSize, currentSize, defaultTTL, last, latest>>

\* Invalidate under the write lock
InvalidateLock(p, url) ==
    /\ tab[p].pc = "idle"
    /\ MutexCanLock
    /\ mutex' = [mutex EXCEPT !.writer = p]
    /\ tab' = [tab EXCEPT ![p] = [IdleTab EXCEPT !.pc = "ci_delete", !.url = url]]
    /\ UNCHANGED <<entries, maxSize, currentSize, defaultTTL, last, latest>>
InvalidateDelete(p) ==
    /\ tab[p].pc = "ci_delete"
    /\ entries' = MapDelete(entries, key(tab[p].url))
    /\ currentSize' = IF key(tab[p].url) \in DOMAIN entries
                      THEN currentSize
                           - entries[key(tab[p].url)].response.body.len
                      ELSE currentSize
    /\ tab' = [tab EXCEPT ![p].pc = "ci_unlock"]
    /\ UNCHANGED <<maxSize, defaultTTL, last, mutex, latest>>

\* Clear under the write lock
ClearLock(p) ==
    /\ tab[p].pc = "idle"
    /\ MutexCanLock
    /\ mutex' = [mutex EXCEPT !.writer = p]
    /\ tab' = [tab EXCEPT ![p] = [IdleTab EXCEPT !.pc = "cc_clear"]]
    /\ UNCHANGED <<entries, maxSize, currentSize, defaultTTL, last, latest>>
ClearEntries(p) ==
    /\ tab[p].pc = "cc_clear"
    /\ entries' = EmptyMap
    /\ currentSize' = 0
    /\ tab' = [tab EXCEPT ![p].pc = "ci_unlock"]
    /\ UNCHANGED <<maxSize, defaultTTL, last, mutex, latest>>
\* the deferred Unlock of Invalidate and of Clear
WriterUnlock(p) ==
    /\ tab[p].pc = "ci_unlock"
    /\ mutex' = [mutex EXCEPT !.writer = NoGoroutine]
    /\ tab' = [tab EXCEPT ![p] = IdleTab]
    /\ UNCHANGED <<entries, maxSize, currentSize, defaultTTL, last, latest>>

\* time passes for the tabs
TabTick ==
    /\ clock < MaxTabClock
    /\ clock' = clock + 1
    /\ UNCHANGED <<cacheVars, restVars>>

\* ---- the application: navigation, tabs and fetch completion ----

MaxNavigations == 4
MaxTabs == 2

\* the URLs typed or followed: with a scheme, or bare
AppURLs ==
    { [scheme |-> "gemini", host |-> "a.example"],
      [scheme |-> "gopher", host |-> "b.example"],
      [scheme |-> "",       host |-> "c.example"] }
EmptyURL == [scheme |-> "", host |-> ""]
NilDocument == [url |-> EmptyURL, title |-> ""]
HistorySizes == {2}

\* the document the parsers build for a fetched page, as far as the
\* application looks at it: its URL and the title GetTitle finds
Document(url) == [url |-> url, title |-> <<"title of", url.host>>]

\* NewHistory, with no history file
NewHistory(size) ==
    [entries |-> <<>>, currentIndex |-> -1, maxSize |-> size]

\* (variant: nothing is dropped above maxSize)
HistoryAddNoTrim(h, url, title) ==
    LET cut == IF h.currentIndex < Len(h.entries) - 1
               THEN SubSeq(h.entries, 1, h.currentIndex + 1)
               ELSE h.entries
        added == Append(cut, [url |-> url, title |-> title])
    IN  [h EXCEPT !.entries = added, !.currentIndex = Len(added) - 1]
\* (variant: what follows the current position is kept)
HistoryAddNoCut(h, url, title) ==
    LET added == Append(h.entries, [url |-> url, title |-> title])
        excess == Len(added) - h.maxSize
    IN  IF Len(added) > h.maxSize
        THEN [h EXCEPT !.entries = SubSeq(added, excess + 1, Len(added)),
                       !.currentIndex = Len(added) - 1 - excess]
        ELSE [h EXCEPT !.entries = added, !.currentIndex = Len(added) - 1]
\* History.Add: what follows the current position is cut, the entry is
\* appended, the oldest entries are dropped above maxSize
HistoryAdd(h, url, title) ==
    LET cut == IF h.currentIndex < Len(h.entries) - 1
               THEN SubSeq(h.entries, 1, h.currentIndex + 1)
               ELSE h.entries
        added == Append(cut, [url |-> url, title |-> title])
        excess == Len(added) - h.maxSize
    IN  IF Len(added) > h.maxSize
        THEN [h EXCEPT !.entries = SubSeq(added, excess + 1, Len(added)),
                       !.currentIndex =
                           IF Len(added) - 1 - excess < 0 THEN 0
                           ELSE Len(added) - 1 - excess]
        ELSE [h EXCEPT !.entries = added, !.currentIndex = Len(added) - 1]

\* History.CanGoBack, CanGoForward, Back, Forward
CanGoBack(h) == h.currentIndex > 0
CanGoForward(h) == h.currentIndex < Len(h.entries) - 1
HistoryBack(h) == [h EXCEPT !.currentIndex = @ - 1]
HistoryForward(h) == [h EXCEPT !.currentIndex = @ + 1]
HistoryURL(h) == h.entries[h.currentIndex + 1].url

\* History.Back and History.Forward as they are called: the history after
\* the call and the URL returned, the empty string when there is no move
HistoryBackCall(h) ==
    IF h.currentIndex <= 0
    THEN [history |-> h, url |-> EmptyURL]
    ELSE [history |-> HistoryBack(h), url |-> HistoryURL(HistoryBack(h))]
HistoryForwardCall(h) ==
    IF h.currentIndex >= Len(h.entries) - 1
    THEN [history |-> h, url |-> EmptyURL]
    ELSE [history |-> HistoryForward(h), url |-> HistoryURL(HistoryForward(h))]
\* History.Clear
HistoryClear(h) == [h EXCEPT !.entries = <<>>, !.currentIndex = -1]

\* the History called directly: Add, Back, Forward and Clear; returned keeps
\* the call, the URL it returned and how many entries lay after the position
\* an Add started from
NoReturn == [op |-> "none", url |-> EmptyURL, cut |-> 0]
MaxHistory == 3
HistoryLimits == 1 .. MaxHistory
AddCalled(url) ==
    /\ history' = HistoryAdd(history, url, <<"title of", url.host>>)
    /\ returned' = [op |-> "Add", url |-> EmptyURL,
                    cut |-> Len(history.entries) - (history.currentIndex + 1)]
BackCalled ==
    /\ history' = HistoryBackCall(history).history
    /\ returned' = [op |-> "Back", url |-> HistoryBackCall(history).url,
                    cut |-> 0]
ForwardCalled ==
    /\ history' = HistoryForwardCall(history).history
    /\ returned' = [op |-> "Forward", url |-> HistoryForwardCall(history).url,
                    cut |-> 0]
ClearCalled ==
    /\ history' = HistoryClear(history)
    /\ returned' = [op |-> "Clear", url |-> EmptyURL, cut |-> 0]

\* NewModel: one empty tab, nothing loaded
NewModel ==
    /\ model = [currentURL |-> EmptyURL, currentDoc |-> NilDocument,
            isNavigating |-> FALSE, loading |-> FALSE,
            pendingInputURL |-> EmptyURL, showInput |-> FALSE]
    /\ tabBar = [tabs |-> <<[url |-> EmptyURL, doc |-> NilDocument]>>,
                 activeIdx |-> 0]
    /\ \E size \in HistorySizes : history = NewHistory(size)
    /\ inflight = {}
    /\ started = 0
    /\ returned = NoReturn

\* saveCurrentTabState and loadTabState
saveCurrentTabState(mdl, bar) ==
    [bar EXCEPT !.tabs[bar.activeIdx + 1] =
        [url |-> mdl.currentURL, doc |-> mdl.currentDoc]]
loadTabState(mdl, bar) ==
    [mdl EXCEPT !.currentURL = bar.tabs[bar.activeIdx + 1].url,
                  !.currentDoc = bar.tabs[bar.activeIdx + 1].doc]

\* navigate: a bare URL becomes a gemini URL; the fetch is dispatched and
\* runs beside the event loop until its fetchCompleteMsg is delivered.
\* A fetch carries the number of the user's navigation it serves and how
\* that navigation began: "ordinary", or "history" for back, forward and
\* reload
Normalized(url) ==
    IF url.scheme = "" THEN [url EXCEPT !.scheme = "gemini"] ELSE url
Dispatched(id, url, kind) ==
    [id |-> id, url |-> Normalized(url),
     protocol |-> Normalized(url).scheme, tab |-> tabBar.activeIdx,
     kind |-> kind]
navigate(url, kind) ==
    /\ started < MaxNavigations
    /\ started' = started + 1
    /\ inflight' = inflight \cup {Dispatched(started + 1, url, kind)}

\* ui.NavigateMsg and ui.BookmarkSelectedMsg: the address bar, a followed
\* link or a bookmark
Navigate(url) ==
    /\ navigate(url, "ordinary")
    /\ model' = [model EXCEPT !.loading = TRUE]
    /\ UNCHANGED <<tabBar, history>>

\* the "r" key
Reload ==
    /\ ~model.showInput
    /\ model.currentURL # EmptyURL
    /\ navigate(model.currentURL, "history")
    /\ model' = [model EXCEPT !.isNavigating = TRUE, !.loading = TRUE]
    /\ UNCHANGED <<tabBar, history>>

\* the "h" and "l" keys
Back ==
    /\ ~model.showInput
    /\ CanGoBack(history)
    /\ history' = HistoryBack(history)
    /\ navigate(HistoryURL(HistoryBack(history)), "history")
    /\ model' = [model EXCEPT !.isNavigating = TRUE, !.loading = TRUE]
    /\ UNCHANGED tabBar
Forward ==
    /\ ~model.showInput
    /\ CanGoForward(history)
    /\ history' = HistoryForward(history)
    /\ navigate(HistoryURL(HistoryForward(history)), "history")
    /\ model' = [model EXCEPT !.isNavigating = TRUE, !.loading = TRUE]
    /\ UNCHANGED tabBar

\* ui.InputSubmitMsg: the input is appended to the URL that asked for it
\* and the result is fetched; ui.InputCancelMsg
Inputs == {"q"}
InputURL(url, text) == [url EXCEPT !.host = @ \o "?" \o text]
InputSubmit(text) ==
    /\ model.showInput
    /\ model.pendingInputURL # EmptyURL
    /\ navigate(InputURL(model.pendingInputURL, text), "ordinary")
    /\ model' = [model EXCEPT !.showInput = FALSE,
                              !.pendingInputURL = EmptyURL,
                              !.loading = TRUE]
    /\ UNCHANGED <<tabBar, history>>
InputCancel ==
    /\ model.showInput
    /\ model' = [model EXCEPT !.showInput = FALSE,
                              !.pendingInputURL = EmptyURL]
    /\ UNCHANGED <<tabBar, history, inflight, started>>

\* ctrl+t: the state is saved, a tab is added and becomes active
NewTab ==
    /\ ~model.showInput
    /\ Len(tabBar.tabs) < MaxTabs
    /\ LET saved == saveCurrentTabState(model, tabBar)
           added == [tabs |-> Append(saved.tabs,
                                     [url |-> EmptyURL, doc |-> NilDocument]),
                     activeIdx |-> Len(saved.tabs)]
       IN  /\ tabBar' = added
           /\ model' = loadTabState(model, added)
    /\ UNCHANGED <<history, inflight, started>>

\* the keys "1".."9", ctrl+tab and ctrl+shift+tab
SwitchTab(index) ==
    /\ ~model.showInput
    /\ index >= 0 /\ index < Len(tabBar.tabs)
    /\ LET saved == saveCurrentTabState(model, tabBar)
           switched == [saved EXCEPT !.activeIdx = index]
       IN  /\ tabBar' = switched
           /\ model' = loadTabState(model, switched)
    /\ UNCHANGED <<history, inflight, started>>

FetchOutcomes == {"ok", "err", "failure", "input"}

\* Update(fetchCompleteMsg) for a fetch error, a page, a failure status and
\* an input status
FetchComplete(fetch, outcome) ==
    /\ fetch \in inflight
    /\ outcome \in {"failure", "input"} => fetch.protocol = "gemini"
    /\ inflight' = inflight \ {fetch}
    /\ UNCHANGED started
    /\ CASE outcome = "err" ->
              /\ model' = [model EXCEPT !.loading = FALSE]
              /\ tabBar' = saveCurrentTabState(model, tabBar)
              /\ UNCHANGED history
         [] outcome = "failure" ->
              /\ model' = [model EXCEPT !.loading = FALSE]
              /\ UNCHANGED <<tabBar, history>>
         [] outcome = "ok" ->
              LET loaded == [model EXCEPT !.loading = FALSE,
                                      !.currentDoc = Document(fetch.url),
                                      !.currentURL = fetch.url,
                                      !.isNavigating = FALSE]
                  title == IF fetch.protocol = "gopher" THEN fetch.url
                           ELSE Document(fetch.url).title
              IN  /\ model' = loaded
                  /\ history' = IF model.isNavigating THEN history
                                ELSE HistoryAdd(history, fetch.url, title)
                  /\ tabBar' = saveCurrentTabState(loaded, tabBar)
         [] outcome = "input" ->
              /\ model' = [model EXCEPT !.loading = FALSE,
                                        !.pendingInputURL = fetch.url,
                                        !.showInput = TRUE]
              /\ UNCHANGED <<tabBar, history>>

\* Update(fetchCompleteMsg) for a redirect status: the target named by the
\* response is fetched for the same navigation
FetchRedirected(fetch, target) ==
    /\ fetch \in inflight
    /\ fetch.protocol = "gemini"
    /\ inflight' = (inflight \ {fetch})
                      \cup {Dispatched(fetch.id, target, fetch.kind)}
    /\ model' = [model EXCEPT !.loading = TRUE]
    /\ UNCHANGED <<started, tabBar, history>>

IdleApp ==
    /\ model = [currentURL |-> EmptyURL, currentDoc |-> NilDocument,
            isNavigating |-> FALSE, loading |-> FALSE,
            pendingInputURL |-> EmptyURL, showInput |-> FALSE]
    /\ tabBar = [tabs |-> <<[url |-> EmptyURL, doc |-> NilDocument]>>,
                 activeIdx |-> 0]
    /\ history = NewHistory(0)
    /\ inflight = {}
    /\ started = 0
    /\ returned = NoReturn

\* ---- status classification ----

MaxStatus == 120
StatusCodes == (0 - MaxStatus) .. MaxStatus

IsSuccessStatus(code) == code >= 20 /\ code < 30
\* (variant: the upper bound belongs to the range)
IsRedirectStatusInclusive(code) == code >= 30 /\ code <= 40
IsRedirectStatus(code) == code >= 30 /\ code < 40
IsInputStatus(code) == code >= 10 /\ code < 20
IsTemporaryFailure(code) == code >= 40 /\ code < 50
IsPermanentFailure(code) == code >= 50 /\ code < 60
IsCertificateRequired(code) == code >= 60 /\ code < 70

\* the six classifiers, by name
Classifiers ==
    {"IsInputStatus", "IsSuccessStatus", "IsRedirectStatus",
     "IsTemporaryFailure", "IsPermanentFailure", "IsCertificateRequired"}
Classifies(name, code) ==
    CASE name = "IsInputStatus" -> IsInputStatus(code)
      [] name = "IsSuccessStatus" -> IsSuccessStatus(code)
      [] name = "IsRedirectStatus" -> IsRedirectStatus(code)
      [] name = "IsTemporaryFailure" -> IsTemporaryFailure(code)
      [] name = "IsPermanentFailure" -> IsPermanentFailure(code)
      [] name = "IsCertificateRequired" -> IsCertificateRequired(code)

NotClassified == {"not classified"}
IdleStatus == status = 0 /\ classes = NotClassified

\* every classifier is asked about the status code
Classify ==
    /\ classes = NotClassified
    /\ classes' = {name \in Classifiers : Classifies(name, status)}
    /\ UNCHANGED status

\* ---- the document parsers ----

MaxLines == 3

\* a string is the sequence of its characters
EmptyString == <<>>
Whitespace == {" ", "\t", "\r", "\n"}

\* strings.HasPrefix and strings.TrimPrefix
HasPrefix(str, prefix) ==
    Len(str) >= Len(prefix) /\ SubSeq(str, 1, Len(prefix)) = prefix
TrimPrefix(str, prefix) ==
    IF HasPrefix(str, prefix) THEN SubSeq(str, Len(prefix) + 1, Len(str))
    ELSE str

\* strings.TrimSpace and strings.TrimRight
RECURSIVE TrimLeft(_, _)
TrimLeft(str, cutset) ==
    IF str # <<>> /\ Head(str) \in cutset THEN TrimLeft(Tail(str), cutset)
    ELSE str
RECURSIVE TrimRight(_, _)
TrimRight(str, cutset) ==
    IF str # <<>> /\ str[Len(str)] \in cutset
    THEN TrimRight(SubSeq(str, 1, Len(str) - 1), cutset)
    ELSE str
TrimSpace(str) == TrimRight(TrimLeft(str, Whitespace), Whitespace)

\* strings.Fields: the maximal runs of characters that are not white space
RECURSIVE Fields(_)
Fields(str) ==
    LET rest == TrimLeft(str, Whitespace)
        n == IF \E i \in 1 .. Len(rest) : rest[i] \in Whitespace
             THEN (CHOOSE i \in 1 .. Len(rest) :
                      /\ rest[i] \in Whitespace
                      /\ \A j \in 1 .. i - 1 : rest[j] \notin Whitespace) - 1
             ELSE Len(rest)
    IN  IF rest = <<>> THEN <<>>
        ELSE <<SubSeq(rest, 1, n)>> \o Fields(SubSeq(rest, n + 1, Len(rest)))

\* strings.Join
RECURSIVE Join(_, _)
Join(parts, sep) ==
    IF parts = <<>> THEN <<>>
    ELSE IF Len(parts) = 1 THEN parts[1]
    ELSE parts[1] \o sep \o Join(Tail(parts), sep)

\* strings.Split: the pieces between the separators, empty pieces kept
RECURSIVE Split(_, _)
Split(str, sep) ==
    IF \E i \in 1 .. Len(str) : str[i] = sep
    THEN LET n == CHOOSE i \in 1 .. Len(str) :
                     str[i] = sep /\ \A j \in 1 .. i - 1 : str[j] # sep
         IN  <<SubSeq(str, 1, n - 1)>> \o Split(SubSeq(str, n + 1, Len(str)), sep)
    ELSE <<str>>

\* bufio.Scanner with bufio.ScanLines over the bytes of a body: a token is
\* the text up to the next newline, without a trailing carriage return; the
\* last line needs no newline.  The scanner's buffer holds MaxScanTokenSize
\* bytes (bufio.MaxScanTokenSize, 64 KiB, in the program): when it is full
\* and holds no newline, Scan stops with ErrTooLong and the tokens
\* delivered so far stay delivered.
MaxScanTokenSize == 32
ErrTooLong == "bufio.Scanner: token too long"
dropCR(data) ==
    IF data # <<>> /\ data[Len(data)] = "\r"
    THEN SubSeq(data, 1, Len(data) - 1)
    ELSE data
RECURSIVE Scan(_)
Scan(data) ==
    LET buffered == IF Len(data) < MaxScanTokenSize THEN Len(data)
                    ELSE MaxScanTokenSize
    IN  IF data = <<>> THEN [tokens |-> <<>>, err |-> ErrNil]
        ELSE IF \E i \in 1 .. buffered : data[i] = "\n"
        THEN LET n == CHOOSE i \in 1 .. buffered :
                         data[i] = "\n" /\ \A j \in 1 .. i - 1 : data[j] # "\n"
                 rest == Scan(SubSeq(data, n + 1, Len(data)))
             IN  [tokens |-> <<dropCR(SubSeq(data, 1, n - 1))>> \o rest.tokens,
                  err |-> rest.err]
        ELSE IF buffered = MaxScanTokenSize
        THEN [tokens |-> <<>>, err |-> ErrTooLong]
        ELSE [tokens |-> <<dropCR(data)>>, err |-> ErrNil]

\* the backquote character, and the three of them that fence a block
Backquote == "backquote"
Fence == <<Backquote, Backquote, Backquote>>

\* types.Line; the zero value of Text and URL is the empty string, of
\* LinkNum 0
Line(type, text, raw, url, linkNum) ==
    [type |-> type, text |-> text, raw |-> raw, url |-> url,
     linkNum |-> linkNum]

\* the URL of the parsed response, the base of relative links
BaseURL == <<"g", "e", "m", "i", "n", "i", ":", "/", "/", "h", "/">>

\* url.Parse fails on a malformed escape; ResolveReference leaves a
\* reference with a scheme as it is and puts a relative path under the base
URLParses(ref) == \A i \in 1 .. Len(ref) : ref[i] # "%"
ResolveReference(base, ref) ==
    IF \E i \in 1 .. Len(ref) : ref[i] = ":" THEN ref ELSE base \o ref

\* (variant: a fence always opens a block)
ToggledStaysOn(inPreformat) == TRUE
\* *inPreformat = !*inPreformat
Toggled(inPreformat) == ~inPreformat

\* (variant: the text is always what follows the target)
LinkTextNoDefault(parts) == Join(Tail(parts), <<" ">>)
\* the text of a link line: what follows the target, or the target itself
LinkText(parts) ==
    IF Len(parts) > 1 THEN Join(Tail(parts), <<" ">>) ELSE parts[1]

\* Parser.parseLine of the Gemini parser: the line, and the preformat
\* state and link number it leaves
parseLine(rawLine, inPreformat, linkNum) ==
    IF HasPrefix(rawLine, Fence)
    THEN IF Toggled(inPreformat)
         THEN [line |-> Line("PreformatStart",
                             TrimSpace(TrimPrefix(rawLine, Fence)),
                             rawLine, EmptyString, 0),
               inPreformat |-> Toggled(inPreformat), linkNum |-> linkNum]
         ELSE [line |-> Line("PreformatEnd", EmptyString, rawLine,
                             EmptyString, 0),
               inPreformat |-> Toggled(inPreformat), linkNum |-> linkNum]
    ELSE IF inPreformat
    THEN [line |-> Line("PreformatText", rawLine, rawLine, EmptyString, 0),
          inPreformat |-> inPreformat, linkNum |-> linkNum]
    ELSE IF HasPrefix(rawLine, <<"=", ">">>)
    THEN LET parts == Fields(TrimSpace(TrimPrefix(rawLine, <<"=", ">">>)))
         IN  IF Len(parts) > 0
             THEN [line |-> Line("Link",
                                 LinkText(parts),
                                 rawLine,
                                 IF URLParses(parts[1])
                                 THEN ResolveReference(BaseURL, parts[1])
                                 ELSE parts[1],
                                 linkNum),
                   inPreformat |-> inPreformat, linkNum |-> linkNum + 1]
             ELSE [line |-> Line("Link", EmptyString, rawLine, EmptyString, 0),
                   inPreformat |-> inPreformat, linkNum |-> linkNum]
    ELSE LET line ==
             IF HasPrefix(rawLine, <<"#", "#", "#">>)
             THEN Line("Heading3",
                       TrimSpace(TrimPrefix(rawLine, <<"#", "#", "#">>)),
                       rawLine, EmptyString, 0)
             ELSE IF HasPrefix(rawLine, <<"#", "#">>)
             THEN Line("Heading2",
                       TrimSpace(TrimPrefix(rawLine, <<"#", "#">>)),
                       rawLine, EmptyString, 0)
             ELSE IF HasPrefix(rawLine, <<"#">>)
             THEN Line("Heading1", TrimSpace(TrimPrefix(rawLine, <<"#">>)),
                       rawLine, EmptyString, 0)
             ELSE IF HasPrefix(rawLine, <<"*">>) /\ Len(rawLine) > 1
                     /\ rawLine[2] = " "
             THEN Line("List", TrimSpace(TrimPrefix(rawLine, <<"*">>)),
                       rawLine, EmptyString, 0)
             ELSE IF HasPrefix(rawLine, <<">">>)
             THEN Line("Quote", TrimSpace(TrimPrefix(rawLine, <<">">>)),
                       rawLine, EmptyString, 0)
             ELSE Line("Text", rawLine, rawLine, EmptyString, 0)
         IN  [line |-> line, inPreformat |-> inPreformat, linkNum |-> linkNum]

\* (variant: the meta is taken whatever the status)
GetMIMETypeAnyStatus(response) == response.meta
\* gemini.GetMIMEType, IsTextGemini and IsTextPlain
GetMIMEType(response) ==
    IF IsSuccessStatus(response.status) THEN response.meta ELSE ""
IsTextGemini(mimeType) ==
    mimeType \in {"text/gemini", "text/gemini; charset=utf-8",
                  "text/gemini;charset=utf-8"}
IsTextPlain(mimeType) ==
    mimeType \in {"text/plain", "text/plain; charset=utf-8",
                  "text/plain;charset=utf-8"}

\* (variant: only links with a target are tracked)
TracksLinkWithTarget(line) == line.type = "Link" /\ line.url # EmptyString
\* the lines Parse appends to Links
TracksLink(line) == line.type = "Link"

\* the loop of the Gemini Parse over the lines the scanner delivers, from
\* line i
RECURSIVE GeminiScan(_, _, _, _, _)
GeminiScan(body, i, document, inPreformat, linkNum) ==
    IF i > Len(body) THEN document
    ELSE LET parsed == parseLine(body[i], inPreformat, linkNum)
         IN  GeminiScan(body, i + 1,
                        [document EXCEPT
                           !.lines = Append(@, parsed.line),
                           !.links = IF TracksLink(parsed.line)
                                     THEN Append(@, parsed.line) ELSE @],
                        parsed.inPreformat, parsed.linkNum)

\* the Document both parsers start from, and the error returned with it
NewDocument(response, mimeType) ==
    [url |-> response.url, rawBody |-> response.body, lines |-> <<>>,
     links |-> <<>>, mimeType |-> mimeType, err |-> ErrNil]

\* Parser.Parse of the Gemini parser
GeminiParse(response) ==
    LET document == NewDocument(response, GetMIMEType(response))
    IN  IF ~IsTextGemini(document.mimeType) /\ ~IsTextPlain(document.mimeType)
        THEN document
        ELSE LET scanner == Scan(response.body)
             IN  [GeminiScan(scanner.tokens, 1, document, FALSE, 1)
                    EXCEPT !.err = scanner.err]

\* url.Parse(...).Host: the authority, between the "//" that follows the
\* scheme and the next "/"; empty when the URL has none
URLHost(str) ==
    LET starts == {i \in 1 .. Len(str) - 2 :
                     /\ str[i] = ":" /\ str[i + 1] = "/" /\ str[i + 2] = "/"
                     /\ \A j \in 1 .. i - 1 : str[j] \notin {":", "/"}}
    IN  IF starts = {} THEN EmptyString
        ELSE LET rest == SubSeq(str, (CHOOSE i \in starts : TRUE) + 3, Len(str))
                 ends == {i \in 1 .. Len(rest) : rest[i] = "/"}
             IN  IF ends = {} THEN rest
                 ELSE SubSeq(rest, 1,
                             (CHOOSE i \in ends : \A j \in ends : i <= j) - 1)

\* gemini.GetTitle
IsHeading(line) == line.type \in {"Heading1", "Heading2", "Heading3"}
GetTitle(document) ==
    LET titled == {i \in 1 .. Len(document.lines) :
                     /\ IsHeading(document.lines[i])
                     /\ document.lines[i].text # EmptyString}
    IN  IF titled # {}
        THEN document.lines[CHOOSE i \in titled : \A j \in titled : i <= j].text
        ELSE IF URLParses(document.url) THEN URLHost(document.url)
        ELSE document.url

\* Parser.parseGopherLine: the line and the link number it leaves
GopherScheme == <<"g", "o", "p", "h", "e", "r", ":", "/", "/">>
URLPrefix == <<"U", "R", "L", ":">>
\* (variant: the item type is left out of the path)
GopherURLWithoutType(itemType, selector, host, port) ==
    GopherScheme \o host \o <<":">> \o port \o <<"/">> \o selector
\* the switch on the item type of a selectable line: the URL of the link
GopherURL(itemType, selector, host, port) ==
    IF itemType = "h" /\ HasPrefix(selector, URLPrefix)
    THEN TrimPrefix(selector, URLPrefix)
    ELSE GopherScheme \o host \o <<":">> \o port \o <<"/">>
         \o <<itemType>> \o selector
parseGopherLine(rawLine, linkNum) ==
    LET trimmed == TrimRight(rawLine, {"\r", "\n"})
        itemType == trimmed[1]
        remaining == IF Len(trimmed) > 1 THEN Tail(trimmed) ELSE EmptyString
        parts == Split(remaining, "\t")
        displayString == parts[1]
        selector == parts[2]
        host == parts[3]
        port == IF Len(parts) >= 4 /\ parts[4] # EmptyString THEN parts[4]
                ELSE <<"7", "0">>
        gopherURL == GopherURL(itemType, selector, host, port)
    IN  IF Len(trimmed) = 0 \/ trimmed = <<".">>
        THEN [line |-> Line("Text", EmptyString, rawLine, EmptyString, 0),
              linkNum |-> linkNum]
        ELSE IF Len(parts) < 3 \/ itemType \in {"i", "3"}
        THEN [line |-> Line("Text", displayString, rawLine, EmptyString, 0),
              linkNum |-> linkNum]
        ELSE [line |-> Line("Link", displayString, rawLine, gopherURL,
                            linkNum),
              linkNum |-> linkNum + 1]

\* the loop of the Gopher Parse over the lines the scanner delivers of a
\* menu, from line i
RECURSIVE GopherScan(_, _, _, _)
GopherScan(body, i, document, linkNum) ==
    IF i > Len(body) THEN document
    ELSE LET parsed == parseGopherLine(body[i], linkNum)
         IN  GopherScan(body, i + 1,
                        [document EXCEPT
                           !.lines = Append(@, parsed.line),
                           !.links = IF TracksLink(parsed.line)
                                     THEN Append(@, parsed.line) ELSE @],
                        parsed.linkNum)

\* gopher.IsGopherMenu and the text/plain test of the Gopher Parse
IsGopherMenu(mimeType) == mimeType \in {"text/gopher"}
IsPlainText(mimeType) == mimeType \in {"text/plain"}

\* Parser.Parse of the Gopher parser
GopherParse(response) ==
    LET document == NewDocument(response, response.meta)
        scanner == Scan(response.body)
    IN  IF IsGopherMenu(document.mimeType)
        THEN [GopherScan(scanner.tokens, 1, document, 1)
                EXCEPT !.err = scanner.err]
        ELSE IF IsPlainText(document.mimeType)
        THEN [document EXCEPT
                !.lines = [i \in 1 .. Len(scanner.tokens) |->
                             Line("Text", scanner.tokens[i], scanner.tokens[i],
                                  EmptyString, 0)],
                !.err = scanner.err]
        ELSE document

(***************************************************************************)
(* The Gopher client.  url.Parse cuts the fragment off at the first "#"    *)
(* and the query at the first "?", reads the scheme, takes the authority   *)
(* between "//" and the next "/", checks the port and unescapes the path.  *)
(***************************************************************************)
Letters ==
    {"a", "b", "c", "d", "e", "f", "g", "h", "i", "j", "k", "l", "m", "n",
     "o", "p", "q", "r", "s", "t", "u", "v", "w", "x", "y", "z",
     "A", "H", "I", "L", "R", "U"}
Digits == {"0", "1", "2", "3", "4", "5", "6", "7", "8", "9"}
HexDigits == Digits \cup {"a", "b", "c", "d", "e", "f", "A", "B", "C", "D", "E", "F"}

\* strings.Cut: the text before the first sep, all of it when there is none
Before(str, sep) == Split(str, sep)[1]
\* strings.Index
Index(str, sep) == IF Before(str, sep) = str THEN -1 ELSE Len(Before(str, sep))
\* strings.LastIndex
LastIndex(str, sep) ==
    IF \E i \in 1 .. Len(str) : str[i] = sep
    THEN (CHOOSE i \in 1 .. Len(str) :
            str[i] = sep /\ \A j \in i + 1 .. Len(str) : str[j] # sep) - 1
    ELSE -1

\* the byte two hexadecimal digits stand for; OtherByte is any byte the
\* strings of this model are not made of
OtherByte == "other byte"
Unhex(a, b) ==
    CASE <<a, b>> = <<"4", "1">> -> "A"
      [] <<a, b>> = <<"3", "F">> -> "?"
      [] <<a, b>> = <<"2", "3">> -> "#"
      [] OTHER -> OtherByte

\* url.unescape of a path: %XX becomes its byte, a "%" without two
\* hexadecimal digits after it is an error
ValidEscapes(str) ==
    \A i \in 1 .. Len(str) :
      str[i] = "%" =>
        /\ i + 2 <= Len(str)
        /\ str[i + 1] \in HexDigits
        /\ str[i + 2] \in HexDigits
RECURSIVE Unescape(_)
Unescape(str) ==
    IF str = <<>> THEN <<>>
    ELSE IF str[1] = "%"
    THEN <<Unhex(str[2], str[3])>> \o Unescape(SubSeq(str, 4, Len(str)))
    ELSE <<str[1]>> \o Unescape(Tail(str))

\* url.getScheme: a letter, then letters, digits, "+", "-" and "." up to
\* the first ":"; no scheme when another character comes first
InScheme(str, i) ==
    str[i] \in Letters \/ (i > 1 /\ str[i] \in Digits \cup {"+", "-", "."})
SchemeLength(str) ==
    IF \E i \in 1 .. Len(str) : ~InScheme(str, i)
    THEN LET n == CHOOSE i \in 1 .. Len(str) :
                    ~InScheme(str, i) /\ \A j \in 1 .. i - 1 : InScheme(str, j)
         IN  IF str[n] = ":" THEN n - 1 ELSE 0
    ELSE 0

\* url.Parse, as far as the Gopher client reads its result: the scheme,
\* Hostname(), Port() and Path
URLParse(urlStr) ==
    LET withoutFragment == Before(urlStr, "#")
        withoutQuery == Before(withoutFragment, "?")
        n == SchemeLength(withoutQuery)
        missingScheme == withoutQuery # <<>> /\ withoutQuery[1] = ":"
        scheme == SubSeq(withoutQuery, 1, n)
        rest == IF n = 0 THEN withoutQuery
                ELSE SubSeq(withoutQuery, n + 2, Len(withoutQuery))
        rooted == HasPrefix(rest, <<"/">>)
        \* a rootless rest after a scheme is opaque and leaves Path empty
        opaque == n > 0 /\ ~rooted
        \* without a scheme the first segment of a rootless path has no colon
        colonInSegment ==
            n = 0 /\ ~rooted /\ Index(Before(rest, "/"), ":") >= 0
        hasAuthority == HasPrefix(rest, <<"/", "/">>)
        afterSlashes == SubSeq(rest, 3, Len(rest))
        authority == IF hasAuthority THEN Before(afterSlashes, "/") ELSE <<>>
        rawPath == IF hasAuthority
                   THEN SubSeq(afterSlashes, Len(authority) + 1, Len(afterSlashes))
                   ELSE IF opaque THEN <<>> ELSE rest
        colon == LastIndex(authority, ":")
        hostname == IF colon < 0 THEN authority ELSE SubSeq(authority, 1, colon)
        port == IF colon < 0 THEN <<>>
                ELSE SubSeq(authority, colon + 2, Len(authority))
        validPort == \A i \in 1 .. Len(port) : port[i] \in Digits
    IN  IF missingScheme \/ colonInSegment \/ ~validPort \/ ~ValidEscapes(rawPath)
        THEN [err |-> ErrInvalidURL]
        ELSE [err |-> ErrNil, scheme |-> scheme, hostname |-> hostname,
              port |-> port, path |-> Unescape(rawPath)]

\* gopher.GetMIMEType
GopherMIMEType(itemType) ==
    CASE itemType = "0" -> "text/plain"
      [] itemType = "1" -> "text/gopher"
      [] itemType \in {"g", "I"} -> "image/gif"
      [] itemType = "h" -> "text/html"
      [] itemType = "s" -> "audio/basic"
      [] itemType \in {"9", "5"} -> "application/octet-stream"
      [] OTHER -> "text/gopher"

DefaultPort == <<"7", "0">>
CRLF == <<"\r", "\n">>
NoRequest == [fetched |-> FALSE]

\* the item type the client reads from the path: the character after the
\* first one, a directory when there is none
ItemTypeOf(path) == IF Len(path) > 1 THEN path[2] ELSE "1"

\* gopher Client.Fetch up to the request it sends: the address it dials,
\* the bytes it writes and the MIME type it gives the response
GopherFetch(urlStr) ==
    LET parsedURL == URLParse(urlStr) IN
    IF parsedURL.err # ErrNil
    THEN [fetched |-> TRUE, url |-> urlStr, err |-> ErrInvalidURL]
    ELSE IF parsedURL.scheme # <<>> /\ parsedURL.scheme # <<"g", "o", "p", "h", "e", "r">>
    THEN [fetched |-> TRUE, url |-> urlStr, err |-> ErrUnsupportedScheme]
    ELSE
    LET port == IF parsedURL.port = <<>> THEN DefaultPort ELSE parsedURL.port
        path == parsedURL.path
        selector == IF Len(path) > 2 THEN SubSeq(path, 3, Len(path)) ELSE <<>>
    IN  [fetched |-> TRUE, url |-> urlStr, err |-> ErrNil,
         address |-> parsedURL.hostname \o <<":">> \o port,
         sent |-> selector \o CRLF,
         meta |-> GopherMIMEType(ItemTypeOf(path))]

\* a line that does not fit the scanner's buffer
LongLine == [i \in 1 .. MaxScanTokenSize + 1 |-> "t"]

\* the lines the bodies handed to the Gemini parser are made of
GeminiLines ==
    { <<>>,
      Fence,
      Fence \o <<" ", "a", " ">>,
      <<"=", ">">>,
      <<"=", ">", " ", "u">>,
      <<"=", ">", "g", ":", "x", " ", "t", " ", " ", "w">>,
      <<"#", " ", "h">>,
      <<"#", "#", "#", "h">>,
      <<"*", " ", "i">>,
      <<">", "q">>,
      <<"t">>,
      <<"t", "\r">>,
      LongLine }
\* the lines of the Gopher menus
GopherLines ==
    { <<>>,
      <<".">>,
      <<"i", "d", "\t", "s", "\t", "h", "\t", "7">>,
      <<"1", "d", "\t", "s", "\t", "h", "\t", "7">>,
      <<"0", "d", "\t", "s", "\t", "h">>,
      <<"1", "d", "\t", "s">>,
      <<"h", "d", "\t", "U", "R", "L", ":", "x", "\t", "h", "\t", "7">>,
      <<"?", "d", "\t", "s", "\t", "h", "\t">>,
      <<"1", "d", "\t", "/", "\t", "h", "\t", "7", "\r">> }

\* a Gemini document of a heading, a link and a text line, and a Gopher
\* menu of one directory line
GeminiExample ==
    <<"#", " ", "T", "i", "t", "l", "e", "\n",
      "=", ">", " ", "g", "e", "m", "i", "n", "i", ":", "/", "/", "x", "/",
      " ", "L", "i", "n", "k", " ", "t", "e", "x", "t", "\n",
      "p", "l", "a", "i", "n", " ", "l", "i", "n", "e", "\n">>
GopherExample ==
    <<"1", "H", "o", "m", "e", "\t", "/", "\t",
      "e", "x", "a", "m", "p", "l", "e", ".", "o", "r", "g", "\t",
      "7", "0", "\r", "\n">>

\* the menu lines of every item type, with a selector, a host and a port
ItemTypes == {"0", "1", "7", "9", "g", "I", "h", "?", "i", "3"}
Selectors == {<<"s">>, <<>>, URLPrefix \o <<"x">>}
MenuLine(t, d, s, h, p) ==
    <<t>> \o d \o <<"\t">> \o s \o <<"\t">> \o h \o <<"\t">> \o p
MenuLines == {MenuLine(t, <<"d">>, s, <<"h">>, <<"7">>) :
                t \in ItemTypes, s \in Selectors}

\* menus of one line whose selector holds a "?", a "#" or a "%"
QuerySelectors ==
    { <<"/", "a">>, <<"/", "a", "?", "b">>, <<"/", "a", "#", "b">>,
      <<"/", "%", "4", "1">>, <<"/", "%">> }
QueryLines == {MenuLine(t, <<"d">>, s, <<"h">>, <<"7">>) :
                 t \in {"0", "1", "7"}, s \in QuerySelectors}

\* the bodies of up to MaxLines of these lines, separated by newlines, the
\* last line with a newline after it or without
Bodies(lines) ==
    UNION { {Join(ls, <<"\n">>), Join(ls, <<"\n">>) \o <<"\n">>} :
              ls \in UNION {[1 .. n -> lines] : n \in 0 .. MaxLines} }

\* the responses handed to the parsers
GeminiResponses ==
    { [status |-> st[1], meta |-> st[2], body |-> body, url |-> BaseURL] :
        st \in {<<20, "text/gemini">>, <<20, "text/plain">>,
                <<20, "image/png">>, <<51, "text/gemini">>},
        body \in Bodies(GeminiLines) \cup {GeminiExample} }
GopherResponses ==
    { [status |-> 20, meta |-> meta, body |-> body, url |-> GopherScheme] :
        meta \in {"text/gopher", "text/plain", "image/gif"},
        body \in Bodies(GopherLines) \cup {GopherExample} \cup MenuLines
                  \cup QueryLines }

\* Gemini documents of headings with a text and without, at a URL with a
\* host, at URLs without one and at a URL that does not parse
TitleLines == {<<"#">>, <<"#", " ", "h">>, <<"#", "#", "#", "k">>, <<"t">>}
TitleURLs == {BaseURL, <<"a", ":", "b">>, EmptyString, <<"%">>}
TitledResponses ==
    { [status |-> 20, meta |-> "text/gemini", body |-> Join(ls, <<"\n">>),
       url |-> url] :
        ls \in [1 .. 2 -> TitleLines] \cup {<<>>}, url \in TitleURLs }

NoParse == [parsed |-> FALSE]
NoTitle == [titled |-> FALSE]
IdleParser ==
    input = NoParse /\ doc = NoParse /\ pageTitle = NoTitle /\ request = NoRequest

\* a response is parsed by the Gemini parser, or by the Gopher parser
ParseGemini ==
    /\ input.parser = "gemini"
    /\ doc = NoParse
    /\ doc' = GeminiParse(input.response)
    /\ UNCHANGED <<input, pageTitle, request>>
ParseGopher ==
    /\ input.parser = "gopher"
    /\ doc = NoParse
    /\ doc' = GopherParse(input.response)
    /\ UNCHANGED <<input, pageTitle, request>>
\* the title of a Document of the Gemini parser is taken
Title ==
    /\ input.parser = "gemini"
    /\ doc # NoParse
    /\ pageTitle = NoTitle
    /\ pageTitle' = [titled |-> TRUE, value |-> GetTitle(doc)]
    /\ UNCHANGED <<input, doc, request>>
\* a link of a Document of the Gopher parser is fetched by the Gopher client
FetchLink ==
    /\ input.parser = "gopher"
    /\ doc # NoParse
    /\ request = NoRequest
    /\ \E i \in 1 .. Len(doc.links) : request' = GopherFetch(doc.links[i].url)
    /\ UNCHANGED <<input, doc, pageTitle>>

IdleRest == IdleApp /\ IdleStatus /\ IdleParser

\* the cache while the store is checked, and the store while the cache is
IdleCache == NewCache(0, 0) /\ last = NoLast /\ IdleTabs
IdleStore ==
    /\ file = NoFile
    /\ certs = EmptyMap
    /\ mu = Unlocked
    /\ onNewCert = "nil"
    /\ onCertChange = "nil"
    /\ failures = 0
    /\ frame = [p \in Goroutines |-> IdleFrame]
    /\ obs = [p \in Goroutines |-> NoObs]

Init == InitStore /\ IdleCache /\ IdleRest

InitCache ==
    /\ IdleStore
    /\ clock = 0
    /\ last = NoLast
    /\ IdleTabs
    /\ IdleRest
    /\ \E mb \in CacheSizesMB, ttl \in DefaultTTLs : NewCache(mb, ttl)

NextCache ==
    \/ CacheTick /\ UNCHANGED <<storeVars, restVars>>
    \/ \E url \in CacheURLs :
         \/ Get(url) /\ UNCHANGED <<storeVars, clock, tabVars, restVars>>
         \/ \E resp \in CacheResponses(url), ttl \in TTLs :
              Set(url, resp, ttl) /\ UNCHANGED <<storeVars, clock, tabVars, restVars>>
         \/ Invalidate(url) /\ UNCHANGED <<storeVars, clock, tabVars, restVars>>
    \/ Clear /\ UNCHANGED <<storeVars, clock, tabVars, restVars>>

SpecCache == InitCache /\ [][NextCache]_vars

TabStep(p) ==
    \/ \E url \in CacheURLs :
         \/ \E resp \in TabResponses(url), ttl \in TabTTLs :
              SetCall(p, url, resp, ttl)
         \/ GetRLock(p, url)
         \/ InvalidateLock(p, url)
    \/ SetRefused(p)
    \/ SetLock(p)
    \/ SetRemoveOld(p)
    \/ SetEvict(p)
    \/ SetInsert(p)
    \/ SetAddSize(p)
    \/ SetUnlock(p)
    \/ GetRead(p)
    \/ GetRUnlock(p)
    \/ InvalidateDelete(p)
    \/ ClearLock(p)
    \/ ClearEntries(p)
    \/ WriterUnlock(p)

NextTabs ==
    \/ TabTick /\ UNCHANGED <<storeVars, restVars>>
    \/ \E p \in Tabs : TabStep(p) /\ UNCHANGED <<storeVars, clock, restVars>>

SpecTabs == InitCache /\ [][NextTabs]_vars

InitApp ==
    /\ IdleStore
    /\ clock = 0
    /\ IdleCache
    /\ NewModel
    /\ IdleStatus
    /\ IdleParser

NextApp ==
    /\ \/ \E url \in AppURLs : Navigate(url)
       \/ Reload
       \/ Back
       \/ Forward
       \/ NewTab
       \/ \E index \in 0 .. MaxTabs - 1 : SwitchTab(index)
       \/ \E text \in Inputs : InputSubmit(text)
       \/ InputCancel
       \/ \E fetch \in inflight, outcome \in FetchOutcomes :
            FetchComplete(fetch, outcome)
       \/ \E fetch \in inflight, target \in AppURLs :
            FetchRedirected(fetch, target)
    /\ UNCHANGED <<storeVars, cacheVars, clock, statusVars, parserVars,
                   returned>>

SpecApp == InitApp /\ [][NextApp]_vars

\* the event loop when every fetch completes: the fetch serving a
\* navigation delivers its fetchCompleteMsg, whatever the response is
Completes(id) ==
    /\ \E fetch \in inflight :
          /\ fetch.id = id
          /\ \/ \E outcome \in FetchOutcomes : FetchComplete(fetch, outcome)
             \/ \E target \in AppURLs : FetchRedirected(fetch, target)
    /\ UNCHANGED <<storeVars, cacheVars, clock, statusVars, parserVars,
                   returned>>

SpecAppFair ==
    /\ InitApp
    /\ [][NextApp]_vars
    /\ \A id \in 1 .. MaxNavigations : WF_vars(Completes(id))

\* the History alone, from an empty history of each size
InitHistory ==
    /\ IdleStore
    /\ clock = 0
    /\ IdleCache
    /\ IdleStatus
    /\ IdleParser
    /\ model = [currentURL |-> EmptyURL, currentDoc |-> NilDocument,
                isNavigating |-> FALSE, loading |-> FALSE,
            pendingInputURL |-> EmptyURL, showInput |-> FALSE]
    /\ tabBar = [tabs |-> <<[url |-> EmptyURL, doc |-> NilDocument]>>,
                 activeIdx |-> 0]
    /\ inflight = {}
    /\ started = 0
    /\ returned = NoReturn
    /\ \E size \in HistoryLimits : history = NewHistory(size)

NextHistory ==
    /\ \/ \E url \in AppURLs : AddCalled(url)
       \/ BackCalled
       \/ ForwardCalled
       \/ ClearCalled
    /\ UNCHANGED <<storeVars, cacheVars, clock, statusVars, parserVars,
                   model, tabBar, inflight, started>>

SpecHistory == InitHistory /\ [][NextHistory]_vars

InitStatus ==
    /\ IdleStore
    /\ clock = 0
    /\ IdleCache
    /\ IdleApp
    /\ IdleParser
    /\ status \in StatusCodes
    /\ classes = NotClassified

NextStatus ==
    Classify /\ UNCHANGED <<storeVars, cacheVars, clock, appVars, parserVars>>

SpecStatus == InitStatus /\ [][NextStatus]_vars

InitParser ==
    /\ IdleStore
    /\ clock = 0
    /\ IdleCache
    /\ IdleApp
    /\ IdleStatus
    /\ doc = NoParse
    /\ pageTitle = NoTitle
    /\ request = NoRequest
    /\ \/ \E response \in GeminiResponses \cup TitledResponses :
            input = [parser |-> "gemini", response |-> response]
       \/ \E response \in GopherResponses :
            input = [parser |-> "gopher", response |-> response]

NextParser ==
    /\ \/ ParseGemini
       \/ ParseGopher
       \/ Title
       \/ FetchLink
    /\ UNCHANGED <<storeVars, cacheVars, clock, appVars, statusVars>>

SpecParser == InitParser /\ [][NextParser]_vars

StoreStep(p) ==
    \/ VerifyCall(p)
    \/ \E host \in Hosts, cert \in Certificates : VerifyBegin(p, host, cert)
    \/ VerifyCheck(p)
    \/ VerifyNewHost(p)
    \/ VerifyChanged(p)
    \/ VerifySame(p)
    \/ VerifySave(p)
    \/ VerifyUnlock(p)
    \/ \E host \in Hosts : RemoveCertLock(p, host)
    \/ RemoveCertDelete(p)
    \/ RemoveCertSave(p)
    \/ RemoveCertUnlock(p)
    \/ SaveRLock(p)
    \/ SaveSave(p)
    \/ SaveRUnlock(p)

\* the store, called directly by concurrent goroutines
Next ==
    /\ \/ Tick
       \/ \E p \in Goroutines : StoreStep(p)
    /\ UNCHANGED <<cacheVars, restVars>>

Spec == Init /\ [][Next]_vars

FetchStep(p) ==
    \/ \E url \in URLs : FetchFails(p, url)
    \/ \E url \in URLs, reply \in ServerReplies, peer \in Certificates :
         FetchVerify(p, url, reply, peer)
    \/ FetchVerified(p)
    \/ FetchReturn(p)

\* The Gemini client.  A goroutine's Fetch meets the other goroutines only
\* in the store: one goroutine fetches (every Fetch verifies under the
\* store's lock) while the others remove certificates from the store.
Fetchers == {"g1"}

\* the steps inside the store's methods
InStore(p) ==
    \/ VerifyCheck(p)
    \/ VerifyNewHost(p)
    \/ VerifyChanged(p)
    \/ VerifySame(p)
    \/ VerifySave(p)
    \/ VerifyUnlock(p)
    \/ RemoveCertDelete(p)
    \/ RemoveCertSave(p)
    \/ RemoveCertUnlock(p)

NextFetch ==
    /\ \/ Tick
       \/ \E p \in Fetchers : FetchStep(p)
       \/ \E p \in Goroutines \ Fetchers, host \in Hosts : RemoveCertLock(p, host)
       \/ \E p \in Goroutines : InStore(p)
    /\ UNCHANGED <<cacheVars, restVars>>

SpecFetch == Init /\ [][NextFetch]_vars

\* The store with callbacks that may read it, and every call that was made
\* running on: a goroutine that can take a step takes it, and a goroutine
\* waiting for the lock gets it if the lock is free again and again
\* (sync.RWMutex hands the lock to waiters in turn).
CallbackKinds == {<<"nil", "func">>, <<"func", "reads">>, <<"reads", "nil">>}
InitCallbacks ==
    /\ file \in InitialFiles
    /\ certs = Load(file)
    /\ mu = Unlocked
    /\ \E cb \in CallbackKinds : onNewCert = cb[1] /\ onCertChange = cb[2]
    /\ clock = 0
    /\ failures = 0
    /\ frame = [p \in Goroutines |-> IdleFrame]
    /\ obs = [p \in Goroutines |-> NoObs]
    /\ IdleCache
    /\ IdleRest

\* the steps of a call that is under way and waits for nothing
Running(p) ==
    \/ VerifyCheck(p)
    \/ CallbackGetCertInfo(p)
    \/ VerifyNewHost(p)
    \/ VerifyChanged(p)
    \/ VerifySame(p)
    \/ VerifySave(p)
    \/ VerifyUnlock(p)
    \/ RemoveCertDelete(p)
    \/ RemoveCertSave(p)
    \/ RemoveCertUnlock(p)
    \/ SaveSave(p)
    \/ SaveRUnlock(p)
    \/ GetCertInfoRUnlock(p)

\* the steps of a call that wait for the lock
Waiting(p) ==
    \/ \E host \in Hosts, cert \in Certificates : VerifyBegin(p, host, cert)
    \/ GetCertInfoRLock(p)

\* the calls a goroutine may make, or not
Calling(p) ==
    \/ VerifyCall(p)
    \/ \E host \in Hosts : RemoveCertLock(p, host)
    \/ SaveRLock(p)
    \/ \E host \in Hosts : GetCertInfoCall(p, host)

NextCallbacks ==
    /\ \/ Tick
       \/ \E p \in Goroutines : Calling(p)
       \/ \E p \in Goroutines : Waiting(p)
       \/ \E p \in Goroutines : Running(p)
    /\ UNCHANGED <<cacheVars, restVars>>

SpecCallbacks ==
    /\ InitCallbacks
    /\ [][NextCallbacks]_vars
    /\ \A p \in Goroutines :
         /\ WF_vars(Running(p) /\ UNCHANGED <<cacheVars, restVars>>)
         /\ SF_vars(Waiting(p) /\ UNCHANGED <<cacheVars, restVars>>)

(***************************************************************************)
(* Properties.  A Verify call is judged where it returns: at "v_unlock",   *)
(* with its result in frame[p].err and the lock still held.  What the call *)
(* met is read off the ledger as it stood when the lock was taken          *)
(* (obs[p].atLock), not off the call's own locals.                         *)
(***************************************************************************)
Returning(p) == frame[p].pc = "v_unlock"

\* the presented certificate's validity window holds the call's time
InWindow(p) ==
    /\ frame[p].now >= frame[p].cert.notBefore
    /\ frame[p].now <= frame[p].cert.notAfter

\* sha256hex(cert.Raw) of the presented certificate
Presented(p) == <<"sha256hex", frame[p].cert.raw>>

Unseen(p) == frame[p].host \notin DOMAIN obs[p].atLock
SeenSame(p) ==
    /\ frame[p].host \in DOMAIN obs[p].atLock
    /\ obs[p].atLock[frame[p].host].fingerprint = Presented(p)
SeenOther(p) ==
    /\ frame[p].host \in DOMAIN obs[p].atLock
    /\ obs[p].atLock[frame[p].host].fingerprint # Presented(p)

\* the record a successful Verify leaves for its host
Trusted(p, first) ==
    [fingerprint |-> Presented(p), firstSeen |-> first,
     lastSeen |-> frame[p].now, subject |-> frame[p].cert.subject,
     notBefore |-> frame[p].cert.notBefore, notAfter |-> frame[p].cert.notAfter]

\* a set of JSON members holds at most one record per hostname
OneRecordPerHost(d) == \A e1, e2 \in d : e1[1] = e2[1] => e1 = e2

\* C1: the ledger, in memory and on file, holds at most one record per
\* hostname; a Verify that returns an error leaves the ledger as it was when
\* the call began, and a Verify that returns success leaves the host's record
\* with the fingerprint of the presented certificate.
C1_VerifyAllOrNothing ==
    /\ OneRecordPerHost(MarshalIndent(certs))
    /\ OneRecordPerHost(file.data)
    /\ \A p \in Goroutines :
         Returning(p) =>
           /\ frame[p].err \in {ErrNil, ErrCertificateExpired, ErrRejected,
                                ErrCertificateChanged}
           /\ frame[p].err # ErrNil => certs = obs[p].atLock
           /\ frame[p].err = ErrNil =>
                /\ frame[p].host \in DOMAIN certs
                /\ certs[frame[p].host].fingerprint = Presented(p)

\* a changed certificate was rejected and the old record is still there
C1_Witness ==
    \E p \in Goroutines :
      /\ Returning(p)
      /\ frame[p].err = ErrCertificateChanged
      /\ certs[frame[p].host].fingerprint # Presented(p)

\* C2: a Fetch returns a Response only after the Verify call it made, for the
\* URL's hostname and the peer's leaf certificate, returned success; the body
\* is read only after that; and when Verify fails Fetch returns an error, no
\* Response, and the body is not read.
C2_FetchVerifiesBeforeBody ==
    \A p \in Goroutines :
      /\ (frame[p].op = "Fetch" /\ frame[p].pc \in {"v_check", "v_decide", "v_save", "v_unlock"}) =>
           /\ frame[p].host = Hostname(frame[p].url.host)
           /\ frame[p].cert = frame[p].peer
           /\ ~obs[p].bodyRead
           /\ frame[p].response = NoResponse
      /\ frame[p].pc = "f_verified" =>
           /\ ~obs[p].bodyRead
           /\ (obs[p].verified = "succeeded") <=> (frame[p].err = ErrNil)
           /\ (obs[p].verified = "failed") <=> (frame[p].err # ErrNil)
      /\ obs[p].bodyRead => obs[p].verified = "succeeded"
      /\ frame[p].response # NoResponse =>
           /\ frame[p].pc = "f_ret"
           /\ frame[p].ferr = ErrNil
           /\ obs[p].verified = "succeeded"
           /\ obs[p].bodyRead
      /\ (frame[p].pc = "f_ret" /\ obs[p].verified = "failed") =>
           /\ frame[p].response = NoResponse
           /\ frame[p].ferr = ErrVerification
           /\ ~obs[p].bodyRead

\* a Fetch returns a Response
C2_Witness ==
    \E p \in Goroutines :
      /\ frame[p].pc = "f_ret"
      /\ frame[p].response # NoResponse
      /\ frame[p].response.url.scheme = "gemini"

\* C3: a certificate whose validity window does not hold the current time
\* fails with ErrCertificateExpired whatever the ledger holds for the host;
\* no callback is invoked, nothing is saved and the ledger is unchanged.
C3_ExpiredAlwaysFails ==
    \A p \in Goroutines :
      (Returning(p) /\ ~InWindow(p)) =>
        /\ frame[p].err = ErrCertificateExpired
        /\ obs[p].asked = {}
        /\ ~obs[p].saved
        /\ certs = obs[p].atLock

\* an expired certificate is refused for a host trusted with another one
C3_Witness ==
    \E p \in Goroutines :
      /\ Returning(p)
      /\ frame[p].now > frame[p].cert.notAfter
      /\ SeenOther(p)
      /\ frame[p].err = ErrCertificateExpired

\* C4: a known host presenting a valid certificate with another fingerprint:
\* only the accept-changed callback is consulted; accepted (or no callback
\* installed), the record is replaced by the new certificate's, with the old
\* firstSeen and lastSeen = now, and Verify succeeds; rejected, Verify fails
\* with ErrCertificateChanged and the record is the old one.
C4_ChangedCertificate ==
    \A p \in Goroutines :
      (Returning(p) /\ InWindow(p) /\ SeenOther(p)) =>
        LET host == frame[p].host
            old == obs[p].atLock[host]
        IN
        /\ obs[p].asked \subseteq {<<"OnCertChange", TRUE>>, <<"OnCertChange", FALSE>>}
        /\ onCertChange = "func" => obs[p].asked # {}
        /\ <<"OnCertChange", FALSE>> \notin obs[p].asked =>
             /\ frame[p].err = ErrNil
             /\ certs = MapPut(obs[p].atLock, host, Trusted(p, old.firstSeen))
        /\ <<"OnCertChange", FALSE>> \in obs[p].asked =>
             /\ frame[p].err = ErrCertificateChanged
             /\ certs = obs[p].atLock
             /\ certs[host] = old

\* a changed certificate was accepted later than the host was first seen
C4_Witness ==
    \E p \in Goroutines :
      /\ Returning(p) /\ InWindow(p) /\ SeenOther(p)
      /\ obs[p].asked = {<<"OnCertChange", TRUE>>}
      /\ obs[p].atLock[frame[p].host].firstSeen < frame[p].now

\* C5: an unseen host presenting a valid certificate: only the accept-new
\* callback is consulted; accepted (or no callback installed), Verify succeeds
\* and GetCertInfo(host) is the record with sha256hex(cert.Raw) and
\* firstSeen = lastSeen = now; rejected, Verify fails with the rejection error,
\* GetCertInfo(host) finds nothing and ListHosts is as before.
C5_NewHost ==
    \A p \in Goroutines :
      (Returning(p) /\ InWindow(p) /\ Unseen(p)) =>
        LET host == frame[p].host IN
        /\ obs[p].asked \subseteq {<<"OnNewCert", TRUE>>, <<"OnNewCert", FALSE>>}
        /\ onNewCert = "func" => obs[p].asked # {}
        /\ <<"OnNewCert", FALSE>> \notin obs[p].asked =>
             /\ frame[p].err = ErrNil
             /\ GetCertInfo(host) = <<Trusted(p, frame[p].now), TRUE>>
             /\ ListHosts = (DOMAIN obs[p].atLock) \cup {host}
        /\ <<"OnNewCert", FALSE>> \in obs[p].asked =>
             /\ frame[p].err = ErrRejected
             /\ GetCertInfo(host)[2] = FALSE
             /\ ListHosts = DOMAIN obs[p].atLock
             /\ certs = obs[p].atLock

\* a new host was accepted at a time after 0
C5_Witness ==
    \E p \in Goroutines :
      /\ Returning(p) /\ InWindow(p) /\ Unseen(p)
      /\ obs[p].asked = {<<"OnNewCert", TRUE>>}
      /\ frame[p].now > 0
      /\ GetCertInfo(frame[p].host)[2]

\* C6: a trusted host presenting a valid certificate with the stored
\* fingerprint: no callback is invoked, Verify succeeds, and the ledger is the
\* old one with that host's lastSeen set to now.
C6_SameCertificate ==
    \A p \in Goroutines :
      (Returning(p) /\ InWindow(p) /\ SeenSame(p)) =>
        /\ obs[p].asked = {}
        /\ frame[p].err = ErrNil
        /\ certs = [obs[p].atLock EXCEPT ![frame[p].host].lastSeen = frame[p].now]

\* the stored certificate is presented again at a later time, while another
\* host is in the ledger too
C6_Witness ==
    \E p \in Goroutines :
      /\ Returning(p) /\ InWindow(p) /\ SeenSame(p)
      /\ obs[p].atLock[frame[p].host].lastSeen < frame[p].now
      /\ Cardinality(DOMAIN certs) = 2

\* the ledger a Verify call must have produced from the one it found
Outcome(p) ==
    LET host == frame[p].host
        before == obs[p].atLock
    IN  IF frame[p].err # ErrNil THEN before
        ELSE MapPut(before, host,
                    Trusted(p, IF host \in DOMAIN before
                               THEN before[host].firstSeen ELSE frame[p].now))

InVerify(p) == frame[p].pc \in {"v_check", "v_decide", "v_save", "v_unlock"}

\* C7: concurrent Verify calls are serialized: only one is between Lock and
\* Unlock; from its lock to its update the ledger is the one it found (its
\* lookup stays valid); from its update to its return the ledger is that one
\* with its own update and nothing else (no update lost); and a file write
\* that succeeded holds exactly that ledger.
C7_VerifySerialized ==
    /\ \A p, q \in Goroutines : (InVerify(p) /\ InVerify(q)) => p = q
    /\ \A p \in Goroutines :
         /\ InVerify(p) => mu.writer = p
         /\ frame[p].pc \in {"v_check", "v_decide"} => certs = obs[p].atLock
         /\ frame[p].pc = "v_decide" =>
              /\ frame[p].exists = (frame[p].host \in DOMAIN certs)
              /\ frame[p].exists => frame[p].stored = certs[frame[p].host]
         /\ frame[p].pc \in {"v_save", "v_unlock"} => certs = Outcome(p)
         /\ (frame[p].pc = "v_unlock" /\ obs[p].saved /\ obs[p].saveErr = ErrNil) =>
              file = JsonFile(MarshalIndent(Outcome(p)))

\* one call has updated the ledger and written the file while another call
\* waits for the lock
C7_Witness ==
    \E p, q \in Goroutines :
      /\ p # q
      /\ frame[p].pc = "v_unlock" /\ obs[p].saved /\ obs[p].saveErr = ErrNil
      /\ certs # obs[p].atLock
      /\ frame[q].pc = "v_lock"

\* C8: every Verify that returns success and every RemoveCert has written the
\* ledger before it returns, and whenever the store's lock is free and no
\* write has failed, the file holds the ledger that is in memory.
C8_WriteThrough ==
    /\ \A p \in Goroutines :
         /\ (Returning(p) /\ frame[p].err = ErrNil) => obs[p].saved
         /\ frame[p].pc = "r_unlock" => obs[p].saved
         /\ (frame[p].pc \in {"v_unlock", "r_unlock"} /\ obs[p].saved
               /\ obs[p].saveErr = ErrNil) => file = JsonFile(MarshalIndent(certs))
    /\ (mu = Unlocked /\ failures = 0) => Load(file) = certs

\* no call is running, no write has failed, the ledger holds two hosts and one
\* of them has been seen again
C8_Witness ==
    /\ mu = Unlocked
    /\ failures = 0
    /\ Cardinality(DOMAIN certs) = 2
    /\ \E h \in DOMAIN certs : certs[h].lastSeen > certs[h].firstSeen
    /\ file.kind = "json"

\* C9: when save fails inside Verify, Verify still returns success and the
\* ledger in memory holds the call's update; a direct Save returns the error.
C9_SaveFailureSwallowed ==
    \A p \in Goroutines :
      /\ (Returning(p) /\ obs[p].saved) =>
           /\ frame[p].err = ErrNil
           /\ certs = Outcome(p)
           /\ certs[frame[p].host] = Trusted(p, certs[frame[p].host].firstSeen)
      /\ frame[p].pc = "s_unlock" =>
           /\ obs[p].saved
           /\ frame[p].err = obs[p].saveErr

\* a Verify returns success although its write failed and left a truncated file
C9_Witness ==
    \E p \in Goroutines :
      /\ Returning(p)
      /\ obs[p].saveErr = ErrWrite
      /\ frame[p].err = ErrNil
      /\ file = TruncatedFile
      /\ frame[p].host \in DOMAIN certs

\* the bytes the cache holds
StoredBytes == BodyBytes(entries, DOMAIN entries)

CacheView == <<[url \in CacheURLs |-> Lookup(url)], GetEntryCount, GetSize>>

\* the stored entries, as Set keeps them
StoredEntries == {entries[k] : k \in DOMAIN entries}

\* C11: a Set with a nil response, or with a meta that is neither
\* "text/gemini" nor "text/plain", leaves the cache as it was (entry count,
\* size and the result of every Get), also when the URL is already cached;
\* so no stored entry has a nil response or another meta
C11_UncacheableSetChangesNothing ==
    /\ [](\A e \in StoredEntries :
            /\ e.response # NilResponse
            /\ e.response.meta \in {"text/gemini", "text/plain"})
    /\ [][\A url \in CacheURLs :
            \A resp \in CacheResponses(url) :
              \A ttl \in TTLs :
                (/\ \/ resp = NilResponse
                    \/ resp.meta \notin {"text/gemini", "text/plain"}
                 /\ UNCHANGED clock
                 /\ Set(url, resp, ttl))
                => /\ CacheView' = CacheView
                   /\ entries' = entries
                   /\ last'.op = "Set refused"]_vars

\* a Set was refused for a URL that is cached and still found
C11_Witness ==
    /\ last.op = "Set refused"
    /\ Lookup(last.url).found
    /\ GetEntryCount = 2

\* the entry Set(url, resp, ttl) would leave, and whether it fits once the
\* old entry of the URL is gone and the eviction pass has run
Fits(url, resp) ==
    LET kept == evictOldest(MapDelete(entries, key(url)), clock)
    IN  BodyBytes(kept, DOMAIN kept) + resp.body.len <= maxSize
Found(resp) == [found |-> TRUE, response |-> resp]

\* a stored entry is found exactly while the clock is not past its deadline
FoundUntilDeadline ==
    \A url \in CacheURLs :
      key(url) \in DOMAIN entries =>
        LET e == entries[key(url)]
        IN  IF clock <= e.timestamp + e.ttl
            THEN Lookup(url) = Found(e.response)
            ELSE ~Lookup(url).found

\* C12 (amended): a Set of a cacheable response that fits is followed by a
\* Get returning (resp, true); the entry is stamped with the time of the Set
\* and with ttl, or with the default TTL when ttl <= 0; a stored entry is
\* found while now <= timestamp+ttl and not found once now > timestamp+ttl
C12_SetThenGetWhenItFits ==
    /\ []FoundUntilDeadline
    /\ [][\A url \in CacheURLs :
            \A resp \in CacheResponses(url) :
              \A ttl \in TTLs :
                (/\ resp # NilResponse
                 /\ resp.meta \in {"text/gemini", "text/plain"}
                 /\ Fits(url, resp)
                 /\ UNCHANGED clock
                 /\ Set(url, resp, ttl))
                => /\ Lookup(url)' = Found(resp)
                   /\ entries'[key(url)].timestamp = clock
                   /\ entries'[key(url)].ttl =
                        (IF ttl <= 0 THEN defaultTTL ELSE ttl)]_vars

\* C12 as stated: every Set of a cacheable response is followed by a Get
\* returning (resp, true)
C12_SetThenGet ==
    /\ []FoundUntilDeadline
    /\ [][\A url \in CacheURLs :
            \A resp \in CacheResponses(url) :
              \A ttl \in TTLs :
                (/\ resp # NilResponse
                 /\ resp.meta \in {"text/gemini", "text/plain"}
                 /\ UNCHANGED clock
                 /\ Set(url, resp, ttl))
                => Lookup(url)' = Found(resp)]_vars

\* an entry stored under the default TTL is asked for one second past its
\* deadline and is no longer found
C12_Witness ==
    /\ last.op = "Get"
    /\ ~last.found
    /\ key(last.url) \in DOMAIN entries
    /\ entries[key(last.url)].ttl = defaultTTL
    /\ clock = entries[key(last.url)].timestamp + defaultTTL + 1

\* C13: Get never modifies the cache: after a hit, a miss or the Get of an
\* expired entry the stored entries, GetEntryCount and GetSize are as before;
\* an entry leaves the cache only in a Set, an Invalidate of its URL or a
\* Clear, never in a Get and never because time passes
C13_GetChangesNothing ==
    /\ [][\A url \in CacheURLs :
            (UNCHANGED clock /\ Get(url))
            => /\ entries' = entries
               /\ GetEntryCount' = GetEntryCount
               /\ GetSize' = GetSize]_vars
    /\ [][\A url \in CacheURLs :
            (/\ key(url) \in DOMAIN entries
             /\ \/ key(url) \notin DOMAIN entries'
                \/ entries'[key(url)] # entries[key(url)])
            => \/ last'.op \in {"Set stored", "Set dropped"}
               \/ last'.op = "Invalidate" /\ last'.url = url
               \/ last'.op = "Clear"]_vars

\* a Get missed an expired entry, which is still stored and still counted
C13_Witness ==
    /\ last.op = "Get"
    /\ ~last.found
    /\ key(last.url) \in DOMAIN entries
    /\ GetEntryCount = 2
    /\ GetSize = 1048576

\* a tab is between Lock and Unlock, or between RLock and RUnlock
Writing(p) ==
    tab[p].pc \in {"cs_remove", "cs_evict", "cs_insert", "cs_size",
                   "cs_unlock", "ci_delete", "cc_clear", "ci_unlock"}
Reading(p) == tab[p].pc \in {"cg_read", "cg_ret"}

\* C14: with Set, Get, Invalidate and Clear running concurrently from several
\* tabs every operation is atomic: a writer runs alone; a Get returns
\* not-found or the response of the latest Set on its key that completed
\* before it, never an entry of a Set still in progress; and whenever no
\* writer holds the lock the tracked size is the sum of the stored bodies
C14_CacheOperationsAtomic ==
    /\ \A p \in Tabs :
         Writing(p) => /\ mutex.writer = p
                       /\ \A q \in Tabs \ {p} : ~Writing(q) /\ ~Reading(q)
    /\ \A p \in Tabs :
         (tab[p].pc = "cg_ret" /\ tab[p].found)
         => /\ tab[p].response # NilResponse
            /\ tab[p].response = latest[tab[p].url]
    /\ (\A p \in Tabs : ~Writing(p))
         => currentSize = BodyBytes(entries, DOMAIN entries)

\* a Get has returned the response of the latest completed Set on its key
\* while the other tab waits for the lock with another response for that key
C14_Witness ==
    \E p \in Tabs : \E q \in Tabs \ {p} :
        /\ tab[p].pc = "cg_ret"
        /\ tab[p].found
        /\ tab[p].response.body = Full
        /\ tab[q].pc = "cs_lock"
        /\ tab[q].url = tab[p].url
        /\ tab[q].resp # tab[p].response
        /\ GetEntryCount = 1

\* a fetch is superseded once a later fetch was dispatched or another tab
\* became active
Superseded(fetch) ==
    fetch.id < started \/ fetch.tab # tabBar.activeIdx

\* C15: the completion of a superseded fetch is discarded: it never replaces
\* the current document or URL, never changes the state of the tab that is
\* active when it completes, and never adds a history entry
C15_StaleFetchDiscarded ==
    [][\A fetch \in inflight :
          (/\ fetch \notin inflight'
           /\ Superseded(fetch))
          => /\ model'.currentDoc = model.currentDoc
             /\ model'.currentURL = model.currentURL
             /\ tabBar'.tabs[tabBar.activeIdx + 1]
                  = tabBar.tabs[tabBar.activeIdx + 1]
             /\ history' = history]_vars

\* the classifier the status ranges of the protocol name for a code
RangeOf(code) ==
    CASE code >= 10 /\ code <= 19 -> {"IsInputStatus"}
      [] code >= 20 /\ code <= 29 -> {"IsSuccessStatus"}
      [] code >= 30 /\ code <= 39 -> {"IsRedirectStatus"}
      [] code >= 40 /\ code <= 49 -> {"IsTemporaryFailure"}
      [] code >= 50 /\ code <= 59 -> {"IsPermanentFailure"}
      [] code >= 60 /\ code <= 69 -> {"IsCertificateRequired"}
      [] OTHER -> {}

\* C16: for every integer status at most one of the six classifiers is
\* true; exactly one, the one of its range, when 10 <= status <= 69, and
\* none outside 10..69
C16_StatusClassesPartition ==
    classes # NotClassified
    => /\ Cardinality(classes) <= 1
       /\ (status >= 10 /\ status <= 69) => Cardinality(classes) = 1
       /\ (status < 10 \/ status > 69) => classes = {}
       /\ classes = RangeOf(status)

\* the last code of the last range has been classified
C16_Witness ==
    status = 69 /\ classes = {"IsCertificateRequired"}

\* a parser has returned its Document
Parsed == doc # NoParse
ParsedBy(parser) == Parsed /\ input.parser = parser
IsLink(line) == line.type = "Link"
\* the lines of the body the parser has read
LinesRead == Scan(input.response.body).tokens

\* C17: in every Document produced by the Gemini parser or the Gopher
\* parser, Links[i].LinkNum = i+1 for every (zero-based) index i of Links:
\* the numbers start at 1 and increase without gaps in document order
C17_LinkNumbersFollowLinks ==
    Parsed => \A i \in 1 .. Len(doc.links) : doc.links[i].linkNum = i

\* C18: in every Document produced by the Gemini parser or the Gopher menu
\* parser, Links is exactly the subsequence of the Lines whose type is Link,
\* in the same order and with the same field values
C18_LinksAreTheLinkLines ==
    Parsed => /\ doc.links = SelectSeq(doc.lines, IsLink)
              /\ Len(doc.links)
                   = Cardinality({i \in 1 .. Len(doc.lines) :
                                     doc.lines[i].type = "Link"})
              /\ \A i \in 1 .. Len(doc.links) : doc.links[i].type = "Link"

\* a Gemini document of a link line without a target, a text line and a
\* link line with a target has been parsed: both link lines are in Links
C18_Witness ==
    /\ ParsedBy("gemini")
    /\ Len(doc.lines) = 3
    /\ doc.lines[1].type = "Link" /\ doc.lines[1].url = EmptyString
    /\ doc.lines[2].type = "Text"
    /\ doc.lines[3].type = "Link" /\ doc.lines[3].url # EmptyString
    /\ Len(doc.links) = 2

\* C19: for a successful response declared text/plain the Gemini parser
\* emits one Text line per input line, with text equal to the raw input
\* line whatever the line starts with, and Links is empty
C19_PlainTextIsNotInterpreted ==
    (/\ ParsedBy("gemini")
     /\ IsSuccessStatus(input.response.status)
     /\ input.response.meta = "text/plain")
    => /\ Len(doc.lines) = Len(LinesRead)
       /\ \A i \in 1 .. Len(doc.lines) :
            /\ doc.lines[i].type = "Text"
            /\ doc.lines[i].raw = LinesRead[i]
            /\ doc.lines[i].text = LinesRead[i]
       /\ doc.links = <<>>

\* the Gemini parser has gone through the lines of the body
Scanned ==
    /\ ParsedBy("gemini")
    /\ IsTextGemini(doc.mimeType) \/ IsTextPlain(doc.mimeType)
\* the preformat state before line i: on after an odd number of fence lines
IsFence(str) == HasPrefix(str, Fence)
OnBefore(body, i) ==
    Cardinality({j \in 1 .. i - 1 : IsFence(body[j])}) % 2 = 1
IsToggle(line) == line.type \in {"PreformatStart", "PreformatEnd"}
IsNumbered(line) == line.linkNum > 0

\* C20: in the Gemini parser a line starting with the fence toggles the
\* preformat state: it yields PreformatStart, with the trimmed rest of the
\* line as alt text, when the state was off and PreformatEnd when it was on,
\* so the two alternate beginning with PreformatStart; every other line read
\* while the state is on is PreformatText with text equal to the raw line,
\* is not in Links and consumes no link number
C20_PreformatToggles ==
    Scanned =>
      LET body == LinesRead
          toggles == SelectSeq(doc.lines, IsToggle)
          numbered == SelectSeq(doc.lines, IsNumbered)
      IN  /\ Len(doc.lines) = Len(body)
          /\ \A i \in 1 .. Len(body) :
               /\ IsFence(body[i]) =>
                    IF OnBefore(body, i)
                    THEN doc.lines[i].type = "PreformatEnd"
                    ELSE /\ doc.lines[i].type = "PreformatStart"
                         /\ doc.lines[i].text
                              = TrimSpace(TrimPrefix(body[i], Fence))
               /\ (~IsFence(body[i]) /\ OnBefore(body, i)) =>
                    /\ doc.lines[i].type = "PreformatText"
                    /\ doc.lines[i].text = body[i]
                    /\ doc.lines[i].linkNum = 0
               /\ (~IsFence(body[i]) /\ ~OnBefore(body, i)) =>
                    ~IsToggle(doc.lines[i])
                    /\ doc.lines[i].type # "PreformatText"
          /\ \A k \in 1 .. Len(toggles) :
               toggles[k].type = IF k % 2 = 1 THEN "PreformatStart"
                                 ELSE "PreformatEnd"
          /\ Len(doc.links)
               = Cardinality({i \in 1 .. Len(body) :
                                /\ ~OnBefore(body, i)
                                /\ doc.lines[i].type = "Link"})
          /\ \A k \in 1 .. Len(numbered) : numbered[k].linkNum = k

\* a block was opened with an alt text, a line that looks like a link was
\* read inside it, and the block was closed
C20_Witness ==
    /\ Scanned
    /\ Len(doc.lines) = 3
    /\ doc.lines[1].type = "PreformatStart" /\ doc.lines[1].text = <<"a">>
    /\ doc.lines[2].type = "PreformatText"
    /\ HasPrefix(doc.lines[2].raw, <<"=", ">", " ">>)
    /\ doc.lines[3].type = "PreformatEnd"
    /\ doc.links = <<>>

\* the rules of the Gemini text format in their order of priority: the
\* prefix of the line and the type it gives
GeminiRules ==
    << [prefix |-> <<"=", ">">>, type |-> "Link"],
       [prefix |-> <<"#", "#", "#">>, type |-> "Heading3"],
       [prefix |-> <<"#", "#">>, type |-> "Heading2"],
       [prefix |-> <<"#">>, type |-> "Heading1"],
       [prefix |-> <<"*", " ">>, type |-> "List"],
       [prefix |-> <<">">>, type |-> "Quote"] >>
Matching(str) ==
    {k \in 1 .. Len(GeminiRules) : HasPrefix(str, GeminiRules[k].prefix)}
FirstMatching(str) ==
    CHOOSE k \in Matching(str) : \A other \in Matching(str) : k <= other
\* a target with a scheme stands as it is, one without is taken relative to
\* the URL of the document
Target(token) ==
    IF \E i \in 1 .. Len(token) : token[i] \in {":", "%"} THEN token
    ELSE input.response.url \o token
\* the tokens after the "=>" of a link line
Tokens(str) == Fields(SubSeq(str, 3, Len(str)))
TitleText == <<"T", "i", "t", "l", "e">>
LinkTextText == <<"L", "i", "n", "k", " ", "t", "e", "x", "t">>
PlainLine == <<"p", "l", "a", "i", "n", " ", "l", "i", "n", "e">>
ExampleTarget == <<"g", "e", "m", "i", "n", "i", ":", "/", "/", "x", "/">>

\* C21: outside preformat mode the Gemini parser types each line by the
\* first matching rule in the order "=>" Link, "###" Heading3, "##"
\* Heading2, "#" Heading1, "* " List, ">" Quote, anything else Text; the
\* first token of a link line is its target, the other tokens joined by
\* single spaces are its text, and the text is the target when there are no
\* other tokens.  The lines "# Title", "=> gemini://x/ Link text",
\* "plain line" yield Heading1 "Title", Link "Link text" to gemini://x/ with
\* link number 1, Text "plain line", and Links holds exactly that Link
C21_GeminiLineTypes ==
    Scanned =>
      /\ \A i \in 1 .. Len(LinesRead) :
            (~IsFence(LinesRead[i]) /\ ~OnBefore(LinesRead, i)) =>
              LET str == LinesRead[i]
                  line == doc.lines[i]
              IN  IF Matching(str) = {}
                  THEN line.type = "Text" /\ line.text = str
                  ELSE LET rule == GeminiRules[FirstMatching(str)]
                           rest == SubSeq(str, Len(rule.prefix) + 1, Len(str))
                       IN  /\ line.type = rule.type
                           /\ rule.type # "Link" => line.text = TrimSpace(rest)
                           /\ (rule.type = "Link" /\ Tokens(str) # <<>>) =>
                                /\ line.url = Target(Tokens(str)[1])
                                /\ line.text
                                     = IF Len(Tokens(str)) = 1
                                       THEN Tokens(str)[1]
                                       ELSE Join(Tail(Tokens(str)), <<" ">>)
      /\ input.response.body = GeminiExample =>
            /\ Len(doc.lines) = 3
            /\ doc.lines[1].type = "Heading1"
            /\ doc.lines[1].text = TitleText
            /\ doc.lines[2].type = "Link"
            /\ doc.lines[2].text = LinkTextText
            /\ doc.lines[2].url = ExampleTarget
            /\ doc.lines[2].linkNum = 1
            /\ doc.lines[3].type = "Text"
            /\ doc.lines[3].text = PlainLine
            /\ doc.links = <<doc.lines[2]>>

\* the three lines of the example have been parsed as a Gemini document
C21_Witness ==
    /\ Scanned
    /\ input.response.body = GeminiExample
    /\ Len(doc.lines) = 3
    /\ doc.lines[1].type = "Heading1"
    /\ doc.lines[2].type = "Link"
    /\ doc.lines[3].type = "Text"

\* the Gopher parser has gone through the lines of a menu
ScannedMenu == ParsedBy("gopher") /\ IsGopherMenu(doc.mimeType)
LinkTypes == {"0", "1", "7", "9", "g", "I", "h", "?"}
Slash == <<"/">>
ExampleURL ==
    <<"g", "o", "p", "h", "e", "r", ":", "/", "/",
      "e", "x", "a", "m", "p", "l", "e", ".", "o", "r", "g", ":", "7", "0",
      "/", "1", "/">>

\* C22: a Gopher menu line of item type t (0, 1, 7, 9, g, I, h or an
\* unrecognized type) with display text d, selector s, host h and port p
\* yields a Link with text d and the URL "gopher://h:p/" followed by t and
\* s, except that an h line whose selector is "URL:u" has the URL u; the line
\* "1Home<tab>/<tab>example.org<tab>70" yields gopher://example.org:70/1/
C22_GopherLinkURL ==
    ScannedMenu =>
      /\ \A i \in 1 .. Len(LinesRead) :
            \A t \in LinkTypes, s \in Selectors \cup {Slash} :
              LinesRead[i] = MenuLine(t, <<"d">>, s, <<"h">>, <<"7">>) =>
                /\ doc.lines[i].type = "Link"
                /\ doc.lines[i].text = <<"d">>
                /\ doc.lines[i].url
                     = IF t = "h" /\ s = URLPrefix \o <<"x">> THEN <<"x">>
                       ELSE GopherScheme \o <<"h", ":", "7", "/", t>> \o s
      /\ input.response.body = GopherExample =>
            /\ Len(doc.lines) = 1
            /\ doc.lines[1].type = "Link"
            /\ doc.lines[1].text = <<"H", "o", "m", "e">>
            /\ doc.lines[1].url = ExampleURL

\* the example line has been parsed into its Link
C22_Witness ==
    /\ ScannedMenu
    /\ input.response.body = GopherExample
    /\ doc.links # <<>>
    /\ doc.links[1].url = ExampleURL

\* the tab-separated fields after the item type of a menu line: the display
\* text, the selector, the host and the port
MenuFields(str) == Split(Tail(str), "\t")
CarriesAll(str) ==
    /\ Len(MenuFields(str)) >= 4
    /\ MenuFields(str)[4] # EmptyString

\* C23: a Gopher menu line yields a Link only if its item type is neither i
\* nor 3 and the line carries a selector, a host and a port; a line of type
\* i or 3, and a line missing the selector, the host or the port, is Text;
\* the end-of-menu line "." is a Text line with empty text; none of these
\* lines consumes a link number
C23_GopherTextLines ==
    ScannedMenu =>
      /\ \A i \in 1 .. Len(LinesRead) :
            LET str == LinesRead[i]
                line == doc.lines[i]
            IN  /\ line.type \in {"Link", "Text"}
                /\ (str # <<>> /\ line.type = "Link") =>
                      str[1] \notin {"i", "3"} /\ CarriesAll(str)
                /\ str \in {<<>>, <<".">>} =>
                      line.type = "Text" /\ line.text = EmptyString
                /\ line.type = "Text" => line.linkNum = 0
      /\ \A k \in 1 .. Len(doc.links) : doc.links[k].linkNum = k

\* the title of the Document has been taken
Titled == pageTitle # NoTitle
\* the headings of the Document that have a text
TextHeadings ==
    SelectSeq(doc.lines,
              LAMBDA line : IsHeading(line) /\ line.text # EmptyString)

\* C24: GetTitle returns the text of the first Heading line (of level 1, 2
\* or 3, in document order) whose text is not empty; without one, the host
\* component of the document URL; and when the URL has no usable host
\* component, the raw URL string
C24_GetTitle ==
    Titled =>
      pageTitle.value
        = IF TextHeadings # <<>> THEN TextHeadings[1].text
          ELSE IF URLParses(doc.url) /\ URLHost(doc.url) # EmptyString
          THEN URLHost(doc.url)
          ELSE doc.url

\* the accept-changed callback has been called by the running Verify of p
ConsultedChange(p) ==
    \E answer \in BOOLEAN : <<"OnCertChange", answer>> \in obs[p].asked
\* the metadata of a stored record, as handed to a callback
OldInfo(info) == [kind |-> "info", info |-> info]

\* C25: whenever Verify consults the accept-changed decision for a host, the
\* decision is given the metadata of the host's currently stored record (old
\* fingerprint, subject, validity dates) together with the newly presented
\* certificate, and never the raw old certificate
C25_ChangeDecisionGetsOldInfo ==
    \A p \in Goroutines :
      ConsultedChange(p) =>
        /\ obs[p].given.called
        /\ obs[p].given.host = frame[p].host
        /\ obs[p].given.new = frame[p].cert
        /\ obs[p].given.old = OldInfo(obs[p].atLock[frame[p].host])

\* a goroutine is inside TOFUStore.save, and one is changing the ledger
InSave(p) == frame[p].pc \in {"v_save", "r_save", "s_save"}
Mutating(p) == frame[p].pc \in {"v_decide", "r_delete"}

\* C26: in the TOFU store every mutation of the in-memory ledger and every
\* write of the ledger file happens while the store's exclusive lock is held,
\* every read of the ledger under at least the shared lock; under any
\* interleaving of the store's methods no two file writes overlap
C26_StoreLocking ==
    /\ \A p \in Goroutines :
         /\ (Mutating(p) \/ InSave(p)) => mu.writer = p
         /\ frame[p].pc = "v_check" => mu.writer = p \/ p \in mu.readers
    /\ \A p, q \in Goroutines : (InSave(p) /\ InSave(q)) => p = q

\* the record of host h is the same before and after the step
SameRecord(h) ==
    /\ (h \in DOMAIN certs') <=> (h \in DOMAIN certs)
    /\ h \in DOMAIN certs => certs'[h] = certs[h]

\* C27: a trust record is keyed by the hostname alone, not host:port:
\* certificates presented for the same hostname on different ports are
\* checked against, and stored in, one and the same record, and a Verify for
\* one hostname never reads or changes the record of another hostname
C27_KeyedByHostname ==
    /\ [](DOMAIN certs \subseteq Hosts)
    /\ [](\A p \in Goroutines :
            (frame[p].op = "Fetch" /\ InVerify(p)) =>
              /\ frame[p].host \in Hosts
              /\ frame[p].host = Hostname(frame[p].url.host)
              /\ (frame[p].pc = "v_decide" /\ frame[p].exists) =>
                   frame[p].stored = obs[p].atLock[frame[p].host]
              /\ frame[p].pc = "v_unlock" =>
                   \A h \in Hosts \ {frame[p].host} :
                     /\ (h \in DOMAIN certs) <=> (h \in DOMAIN obs[p].atLock)
                     /\ h \in DOMAIN certs => certs[h] = obs[p].atLock[h])
    /\ [][\A p \in Goroutines :
            (InVerify(p) /\ frame'[p] # frame[p]) =>
              \A h \in Hosts \ {frame[p].host} : SameRecord(h)]_vars

\* a.example was trusted before, its certificate is presented again on
\* port 1966 and is found to be the stored one
C27_Witness ==
    \E p \in Goroutines :
      /\ frame[p].op = "Fetch"
      /\ Returning(p)
      /\ frame[p].url.host = "a.example:1966"
      /\ SeenSame(p)
      /\ frame[p].err = ErrNil
      /\ DOMAIN certs = {"a.example"}

\* an entry is older than half its time to live
OlderThanHalfTTL(entry, now) == 2 * (now - entry.timestamp) > entry.ttl
\* the sum of the body lengths of a set of entries
RECURSIVE TotalBytes(_)
TotalBytes(es) ==
    IF es = {} THEN 0
    ELSE LET e == CHOOSE x \in es : TRUE
         IN  e.response.body.len + TotalBytes(es \ {e})

TextTypes ==
    {"text/gemini", "text/gemini; charset=utf-8", "text/gemini;charset=utf-8",
     "text/plain", "text/plain; charset=utf-8", "text/plain;charset=utf-8"}

\* C29: for a response whose effective MIME type is neither text/gemini nor
\* text/plain, which includes every response with a non-success status (its
\* MIME type is taken as empty), the Gemini Parse returns a Document with
\* empty Lines and empty Links, RawBody equal to the response body, the
\* response URL, and no error
C29_OtherTypesAreNotParsed ==
    (/\ ParsedBy("gemini")
     /\ \/ input.response.status \notin 20 .. 29
        \/ input.response.meta \notin TextTypes)
    => /\ doc.lines = <<>>
       /\ doc.links = <<>>
       /\ doc.rawBody = input.response.body
       /\ doc.url = input.response.url
       /\ doc.err = ErrNil

\* a permanent failure whose meta says text/gemini and whose body holds a
\* link line has been handed to the Gemini parser
C29_Witness ==
    /\ ParsedBy("gemini")
    /\ input.response.status = 51
    /\ input.response.meta = "text/gemini"
    /\ input.response.body = <<"=", ">", " ", "u", "\n">>
    /\ doc.lines = <<>>
    /\ doc.rawBody = input.response.body

\* the lines of a body: the text between the newlines, without the carriage
\* return before a newline; a newline at the end begins no further line
InputLines(body) ==
    LET pieces == Split(body, "\n")
        n == IF pieces[Len(pieces)] = <<>> THEN Len(pieces) - 1
             ELSE Len(pieces)
    IN  [i \in 1 .. n |->
           IF pieces[i] # <<>> /\ pieces[i][Len(pieces[i])] = "\r"
           THEN SubSeq(pieces[i], 1, Len(pieces[i]) - 1)
           ELSE pieces[i]]

\* C30: for a text document the Gemini parser emits exactly one Line per
\* input line, in input order, with Raw equal to that input line; blank
\* lines are kept as Text lines with empty text and no line is dropped or
\* merged, so the index of a Line in Lines is the index of its input line
C30_OneLinePerInputLine ==
    Scanned =>
      LET body == InputLines(input.response.body)
      IN  /\ Len(doc.lines) = Len(body)
          /\ \A i \in 1 .. Len(doc.lines) :
               /\ doc.lines[i].raw = body[i]
               /\ (body[i] = <<>> /\ ~OnBefore(body, i)) =>
                    /\ doc.lines[i].type = "Text"
                    /\ doc.lines[i].text = EmptyString

\* the body length of the entry stored for url, 0 when there is none
StoredLength(url) ==
    IF key(url) \in DOMAIN entries
    THEN entries[key(url)].response.body.len
    ELSE 0

\* C31: after any sequence of Set, Get, Invalidate and Clear the tracked
\* size is the sum of the body lengths of the stored entries and is never
\* negative; after Clear both GetSize and GetEntryCount are 0; after
\* Invalidate(url) the entry for url is gone, the size has dropped by exactly
\* that entry's body length and every other entry is unchanged
C31_SizeIsSumOfBodies ==
    /\ [](/\ GetSize = StoredBytes
          /\ GetSize >= 0
          /\ last.op = "Clear" => (GetSize = 0 /\ GetEntryCount = 0))
    /\ [][\A url \in CacheURLs :
            (/\ last'.op = "Invalidate"
             /\ last'.url = url
             /\ UNCHANGED clock
             /\ Invalidate(url))
            => /\ key(url) \notin DOMAIN entries'
               /\ GetSize' = GetSize - StoredLength(url)
               /\ DOMAIN entries' = (DOMAIN entries) \ {key(url)}
               /\ \A k \in DOMAIN entries' : entries'[k] = entries[k]]_vars

\* an Invalidate has taken one of two entries and left the other
C31_Witness ==
    /\ last.op = "Invalidate"
    /\ key(last.url) \notin DOMAIN entries
    /\ GetEntryCount = 1
    /\ GetSize = Half.len
    /\ maxSize = 2 * Half.len

\* C32: a Set of a cacheable response that is abandoned because the body
\* does not fit is not a no-op: the previous entry for the URL has been
\* removed and every entry older than half its TTL has been evicted, so
\* after it Get(url) returns not-found, also when the URL had a valid
\* unexpired entry before the call
C32_DroppedSetRemoves ==
    [][\A url \in CacheURLs :
         \A resp \in CacheResponses(url) \ {NilResponse} :
           \A ttl \in TTLs :
             (/\ last'.op = "Set dropped"
              /\ last'.url = url
              /\ UNCHANGED clock
              /\ Set(url, resp, ttl))
             => /\ key(url) \notin DOMAIN entries'
                /\ ~Lookup(url)'.found
                /\ \A k \in DOMAIN entries :
                     k \in DOMAIN entries' <=>
                       /\ k # key(url)
                       /\ ~OlderThanHalfTTL(entries[k], clock)
                /\ \A k \in DOMAIN entries' :
                     k \in DOMAIN entries /\ entries'[k] = entries[k]]_vars

\* a Set was dropped for a URL that Get still found when it was called, and
\* no entry is left in the cache
C32_Witness ==
    /\ last.op = "Set dropped"
    /\ last.had
    /\ ~Lookup(last.url).found
    /\ GetEntryCount = 0
    /\ clock = 1

\* C33: when no trust-decision callback is installed (OnNewCert or
\* OnCertChange is nil) Verify behaves as if the decision accepted: an unseen
\* host is trusted, and a certificate with another fingerprint than the
\* stored one replaces the stored record and Verify succeeds; so
\* ErrCertificateChanged is returned only when an installed OnCertChange
\* callback returned false
C33_NoCallbackAccepts ==
    \A p \in Goroutines :
      (Returning(p) /\ InWindow(p)) =>
        LET host == frame[p].host IN
        /\ (onNewCert = "nil" /\ Unseen(p)) =>
             /\ frame[p].err = ErrNil
             /\ obs[p].asked = {}
             /\ GetCertInfo(host) = <<Trusted(p, frame[p].now), TRUE>>
        /\ (onCertChange = "nil" /\ SeenOther(p)) =>
             /\ frame[p].err = ErrNil
             /\ obs[p].asked = {}
             /\ GetCertInfo(host) =
                  <<Trusted(p, obs[p].atLock[host].firstSeen), TRUE>>
        /\ frame[p].err = ErrCertificateChanged =>
             /\ onCertChange = "func"
             /\ <<"OnCertChange", FALSE>> \in obs[p].asked

\* with no accept-changed callback installed a host trusted with one
\* certificate has been given another one's record
C33_Witness ==
    \E p \in Goroutines :
      /\ Returning(p) /\ InWindow(p) /\ SeenOther(p)
      /\ onCertChange = "nil"
      /\ onNewCert = "func"
      /\ frame[p].err = ErrNil
      /\ certs[frame[p].host].fingerprint = Presented(p)
      /\ certs[frame[p].host].fingerprint
           # obs[p].atLock[frame[p].host].fingerprint

\* C34: Verify always returns: it never blocks forever, also when the
\* trust-decision callback it invokes reads the same store through
\* GetCertInfo, and also when other goroutines call store operations at the
\* same time
C34_VerifyReturns ==
    \A p \in Goroutines :
      (frame[p].op = "Verify") ~> (frame[p].op # "Verify")

\* C35: RemoveCert(host) removes the host's record from the ledger in memory
\* whether or not the write of the file succeeds: when the write fails it
\* returns the error and the record is still gone.  After it the next
\* Verify for the host takes the unseen-host path (a host enters the ledger
\* only there, with firstSeen set to the time of that call); RemoveCert of
\* an absent host changes no record
C35_RemoveCertRemoves ==
    /\ [](\A p \in Goroutines :
            frame[p].pc = "r_unlock" =>
              /\ frame[p].host \notin DOMAIN certs
              /\ certs = MapDelete(obs[p].atLock, frame[p].host)
              /\ frame[p].err = obs[p].saveErr
              /\ frame[p].host \notin DOMAIN obs[p].atLock =>
                   certs = obs[p].atLock)
    /\ [][\A h \in Hosts :
            (h \notin DOMAIN certs /\ h \in DOMAIN certs') =>
              \E p \in Goroutines :
                /\ frame[p].host = h
                /\ ~frame[p].exists
                /\ VerifyNewHost(p)
                /\ obs'[p].asked = Asked(onNewCert, "OnNewCert", TRUE)
                /\ certs'[h].firstSeen = frame[p].now]_vars

\* a RemoveCert returns the write's error, the record is gone in memory and
\* the file still holds it
C35_Witness ==
    \E p \in Goroutines :
      /\ frame[p].pc = "r_unlock"
      /\ frame[p].err = ErrWrite
      /\ frame[p].host \in DOMAIN obs[p].atLock
      /\ frame[p].host \notin DOMAIN certs
      /\ file = JsonFile(MarshalIndent(obs[p].atLock))

\* the client has been asked for a link of a parsed menu
Fetched == ScannedMenu /\ request # NoRequest
\* an h line whose selector is "URL:u"
IsExternal(str) ==
    str[1] = "h" /\ HasPrefix(MenuFields(str)[2], URLPrefix)

\* C36: round trip between the Gopher parser and the Gopher client: for a
\* menu line of a link type t with selector s, host h and port p (other than
\* an h line with a "URL:" selector), fetching the URL the parser
\* synthesized makes the client connect to h:p, send exactly s followed by
\* CRLF, and label the response with the MIME type of item type t
C36_GopherRoundTrip ==
    Fetched =>
      \A i \in 1 .. Len(doc.lines) :
        LET str == doc.lines[i].raw IN
        (/\ IsLink(doc.lines[i])
         /\ doc.lines[i].url = request.url
         /\ CarriesAll(str)
         /\ ~IsExternal(str))
        => /\ request.err = ErrNil
           /\ request.address = MenuFields(str)[3] \o <<":">> \o MenuFields(str)[4]
           /\ request.sent = MenuFields(str)[2] \o CRLF
           /\ request.meta = GopherMIMEType(str[1])

\* the entry at the current position
Current(h) == h.entries[h.currentIndex + 1]
\* the last n entries of a list
LastEntries(es, n) == SubSeq(es, Len(es) - n + 1, Len(es))
Min(a, b) == IF a < b THEN a ELSE b

\* C37: after any sequence of Add, Back, Forward and Clear from an empty
\* history, -1 <= currentIndex <= len(entries)-1, currentIndex is -1 exactly
\* when the history is empty, and len(entries) <= maxSize, the oldest
\* entries being dropped first; Back at the first entry and Forward at the
\* last return the empty string and leave the position unchanged; CanGoBack
\* and CanGoForward are true exactly when Back and Forward would move
C37_HistoryPosition ==
    /\ [](/\ history.currentIndex >= -1
          /\ history.currentIndex <= Len(history.entries) - 1
          /\ (history.currentIndex = -1) <=> (history.entries = <<>>)
          /\ Len(history.entries) <= history.maxSize)
    /\ [][\A url \in AppURLs :
            (returned'.op = "Add" /\ AddCalled(url)) =>
              LET kept == SubSeq(history.entries, 1, history.currentIndex + 1)
                  added == Append(kept, [url |-> url,
                                         title |-> <<"title of", url.host>>])
              IN  history'.entries
                    = LastEntries(added, Min(Len(added), history.maxSize))]_vars
    /\ [][(returned'.op = "Back" /\ BackCalled) =>
            IF CanGoBack(history)
            THEN /\ history'.currentIndex = history.currentIndex - 1
                 /\ returned'.url = Current(history').url
            ELSE /\ history' = history
                 /\ returned'.url = EmptyURL]_vars
    /\ [][(returned'.op = "Forward" /\ ForwardCalled) =>
            IF CanGoForward(history)
            THEN /\ history'.currentIndex = history.currentIndex + 1
                 /\ returned'.url = Current(history').url
            ELSE /\ history' = history
                 /\ returned'.url = EmptyURL]_vars

\* a full history of three entries whose oldest entry was dropped, and a
\* Back at its first entry that returned the empty string
C37_Witness ==
    /\ history.maxSize = 3
    /\ Len(history.entries) = 3
    /\ history.entries[1].url # history.entries[3].url
    /\ history.currentIndex = 0
    /\ returned = [op |-> "Back", url |-> EmptyURL, cut |-> 0]

\* C38: an Add at a position that is not the last discards every entry
\* after the position before appending, so after any Add the new entry is
\* Current and CanGoForward is false; a Back that moved followed by Forward
\* returns to the entry that was current before the Back; Back and Forward
\* never change the list of entries
C38_AddCutsForward ==
    /\ [][\A url \in AppURLs :
            (returned'.op = "Add" /\ AddCalled(url)) =>
              LET entry == [url |-> url, title |-> <<"title of", url.host>>]
                  kept == SubSeq(history.entries, 1, history.currentIndex + 1)
                  n == Len(history'.entries)
              IN  /\ Current(history') = entry
                  /\ ~CanGoForward(history')
                  /\ n >= 1
                  /\ n - 1 <= Len(kept)
                  /\ SubSeq(history'.entries, 1, n - 1)
                        = LastEntries(kept, n - 1)]_vars
    /\ [](CanGoBack(history) =>
            LET back == HistoryBackCall(history)
                forth == HistoryForwardCall(back.history)
            IN  /\ back.history # history
                /\ forth.history = history
                /\ forth.url = Current(history).url)
    /\ [][(returned'.op \in {"Back", "Forward"}
            /\ (BackCalled \/ ForwardCalled)) =>
            history'.entries = history.entries]_vars

\* an Add made two entries before the last one: both were discarded and the
\* new entry follows the one that was current
C38_Witness ==
    /\ returned.op = "Add"
    /\ returned.cut = 2
    /\ Len(history.entries) = 2
    /\ history.currentIndex = 1
    /\ ~CanGoForward(history)

\* the title the fetchCompleteMsg handler files a loaded page under
TitleOf(fetch) ==
    IF fetch.protocol = "gopher" THEN fetch.url ELSE Document(fetch.url).title

\* C39: in the event loop a page loaded by an ordinary navigation (address
\* bar, link, bookmark, input submission) is appended to history exactly
\* once and a page loaded by back, forward or reload is never appended,
\* whatever fetches failed, were redirected, asked for input or completed
\* out of order before
C39_HistoryAddedOnce ==
    [][/\ \A fetch \in inflight :
            FetchComplete(fetch, "ok") =>
              IF fetch.kind = "ordinary"
              THEN history' = HistoryAdd(history, fetch.url, TitleOf(fetch))
              ELSE history' = history
       /\ (\A fetch \in inflight : ~FetchComplete(fetch, "ok"))
            => history'.entries = history.entries]_vars

\* a navigation is under way while a fetch serves it
Pending(id) == \E fetch \in inflight : fetch.id = id

\* C40: when every fetch completes, every navigation eventually reaches a
\* terminal outcome (document displayed, error shown, input prompt shown):
\* the redirects, each of which starts a new fetch, cannot go on forever
C40_NavigationEnds ==
    \A id \in 1 .. MaxNavigations : Pending(id) ~> ~Pending(id)

====
